---- MODULE Spec2Model ----
(***************************************************************************)
(* Model of base_agent: the tool-use loop ClaudeMCPAgent.ask_stream        *)
(* (agent.py) and the OpenAI-style encoders (openai_adapter.py).           *)
(*                                                                         *)
(* A Python str is a sequence of atoms (short pieces of text); the         *)
(* whitespace atoms are single characters, so that str.strip() and         *)
(* str.join() are computed on the sequence.  A Python dict is a function   *)
(* from its keys, its string values are atom sequences; a value of varying *)
(* type (an item a generator yields, a tool-use input, a message content)  *)
(* is tagged with its Python type: py |-> "str", "dict", "list", "None".   *)
(*                                                                         *)
(* Spec is one ask_stream request against an arbitrary provider and tool   *)
(* executor; SpecLive is Spec with a consumer and collaborators that keep  *)
(* going; SpecNew is the constructor followed by one request; SpecTwo is   *)
(* two requests interleaved on one agent; SpecModes is one request run in  *)
(* two output modes against collaborators that behave alike; SpecConsumer  *)
(* is a live request whose consumer asks for its items one at a time;      *)
(* SpecSSE is one run of an encoder or of chat_completion_response over an *)
(* arbitrary source.                                                       *)
(***************************************************************************)
EXTENDS Naturals, Sequences, FiniteSets, TLC

VARIABLES
    simulate,           \* self.simulate
    stream_mode,        \* ask_stream(stream_mode=...)
    include_tool_logs,  \* ask_stream(include_tool_logs=...)
    messages,           \* the caller's message list
    pc,                 \* position of the ask_stream coroutine
    conversation,       \* local conversation
    answer_parts,       \* local answer_parts
    thinking_parts,     \* local thinking_parts
    block_types,        \* local block_types (index -> type), one per round
    tool_requests,      \* local tool_requests of the current round
    tool_results,       \* local tool_results of the current round
    tool_idx,           \* position of the for loop over tool_requests
    session_open,       \* the round's provider streaming session is entered
    requests,           \* provider side: the messages= value of every stream() call
    called,             \* tool executor side: (tool_name, arguments) of every call
    returned,           \* tool executor side: the string every finished call returned
    stream_events,      \* provider side: the events sent in the current round
    round_log,          \* provider side: per finished round, its events and final message
    events_seen,        \* number of provider events consumed by the request
    out,                \* the items yielded so far by ask_stream
    tools,              \* local tools, the definitions handed to the provider
    sessions,           \* provider side: per stream() call, "open" or "released"
    failures,           \* the collaborator calls that raised, with what had happened by then
    init_args,          \* the arguments of __init__: api_key, model, simulate
    environ,            \* ANTHROPIC_API_KEY, DEFAULT_MODEL, and whether mcp is installed
    api_key,            \* self.api_key
    self_model,         \* self.model
    client,             \* self.client
    mcp_client,         \* self.mcp_client
    raised,             \* the exception __init__ raised, "None" when it returned
    running,            \* the invocation of ask_stream whose frame the locals above are
    other,              \* the frames of the suspended invocations of ask_stream
    max_events,         \* the number of events the provider sends at most in this run
    asked,              \* consumer side: the number of items asked of the generator
                        \* where the consumer is a process of its own, else 0
    encoder,            \* which encoder runs: "sync", "async", or "none"
    sse_pc,             \* position of the encoder generator
    sse_source,         \* the items of the source the encoder has not consumed
    sse_consumed,       \* the items the encoder has consumed
    sse_base,           \* local base, the envelope
    sse_frames,         \* the frames yielded so far by the encoder
    prompt_messages,    \* chat_completion_response(prompt_messages=...)
    response            \* what chat_completion_response returned

agent_vars == <<simulate, stream_mode, include_tool_logs, messages, pc, conversation,
          answer_parts, thinking_parts, block_types, tool_requests, tool_results,
          tool_idx, session_open, requests, called, returned, stream_events,
          round_log, events_seen, out, tools, sessions, failures>>

\* the agent object: the constructor's inputs and the fields it sets
self_vars == <<init_args, environ, api_key, self_model, client, mcp_client, raised>>

other_vars == <<running, other, max_events, asked>>

sse_vars == <<encoder, sse_pc, sse_source, sse_consumed, sse_base, sse_frames,
             prompt_messages, response>>

vars == <<agent_vars, self_vars, other_vars, sse_vars>>

-----------------------------------------------------------------------------
(* Bounds *)

\* total number of provider stream events of one request
MaxEvents == 2

\* the same, for the requests made to agents of every construction
MaxEventsNew == 1

\* number of items of the source an encoder is given
MaxItems == 2

-----------------------------------------------------------------------------
(* Python values *)

EmptyDict == [k \in {} |-> 0]
PyNone == [py |-> "None"]
PyDict(d) == [py |-> "dict", v |-> d]
PyStr(s) == [py |-> "str", v |-> s]

Whitespace == {" ", "\n", "\t"}

RECURSIVE lstrip(_)
lstrip(s) ==
    IF s # <<>> /\ Head(s) \in Whitespace THEN lstrip(Tail(s)) ELSE s

RECURSIVE rstrip(_)
rstrip(s) ==
    IF s # <<>> /\ s[Len(s)] \in Whitespace
    THEN rstrip(SubSeq(s, 1, Len(s) - 1))
    ELSE s

\* str.strip()
strip(s) == rstrip(lstrip(s))

\* sep.join(parts)
RECURSIVE join(_, _)
join(sep, parts) ==
    IF parts = <<>> THEN <<>>
    ELSE IF Len(parts) = 1 THEN parts[1]
    ELSE parts[1] \o sep \o join(sep, Tail(parts))

\* [x for x in seq if x]
RECURSIVE truthy(_)
truthy(seq) ==
    IF seq = <<>> THEN <<>>
    ELSE IF Head(seq) # <<>> THEN <<Head(seq)>> \o truthy(Tail(seq))
    ELSE truthy(Tail(seq))

-----------------------------------------------------------------------------
(* json.dumps and json.loads on the values the model uses: None, integers, *)
(* strings and flat objects with at most one member.                       *)

PyInt(n) == [py |-> "int", v |-> n]

Digits == 0..9

\* json.dumps(value): separators ", " and ": "
json_dumps(value) ==
    IF value.py = "int" THEN <<ToString(value.v)>>
    ELSE IF value.py = "str" THEN <<"\"">> \o value.v \o <<"\"">>
    ELSE IF value.py = "None" THEN <<"null">>
    ELSE IF DOMAIN value.v = {} THEN <<"{}">>
    ELSE LET k == CHOOSE key \in DOMAIN value.v : TRUE
         IN  <<"{", "\"", k, "\"", ": ", ToString(value.v[k]), "}">>

\* json.dumps(value, indent=2)
json_dumps_indent2(value) ==
    IF value.py # "dict" \/ DOMAIN value.v = {} THEN json_dumps(value)
    ELSE LET k == CHOOSE key \in DOMAIN value.v : TRUE
         IN  <<"{", "\n", " ", " ", "\"", k, "\"", ": ", ToString(value.v[k]), "\n", "}">>

IsNumber(atom) == \E n \in Digits : ToString(n) = atom
NumberOf(atom) == CHOOSE n \in Digits : ToString(n) = atom

\* json.loads(text): ok = FALSE stands for json.JSONDecodeError
json_loads(text) ==
    LET s == strip(text)
        fail == [ok |-> FALSE, value |-> PyNone]
    IN  IF s = <<>> THEN fail
        ELSE IF Len(s) = 1 /\ IsNumber(s[1])
             THEN [ok |-> TRUE, value |-> PyInt(NumberOf(s[1]))]
        ELSE IF s = <<"null">> THEN [ok |-> TRUE, value |-> PyNone]
        ELSE IF Len(s) = 3 /\ s[1] = "\"" /\ s[3] = "\"" /\ s[2] # "\""
             THEN [ok |-> TRUE, value |-> PyStr(<<s[2]>>)]
        ELSE IF s = <<"{}">> \/ s = <<"{", "}">>
             THEN [ok |-> TRUE, value |-> PyDict(EmptyDict)]
        ELSE IF /\ Len(s) = 7
                /\ s[1] = "{" /\ s[2] = "\"" /\ s[4] = "\""
                /\ s[5] \in {":", ": "} /\ IsNumber(s[6]) /\ s[7] = "}"
             THEN [ok |-> TRUE,
                   value |-> PyDict([k \in {s[3]} |-> NumberOf(s[6])])]
        ELSE fail

\* `x or {}` for tool_use.input
or_empty_dict(input) ==
    IF input.py = "None" \/ (input.py = "dict" /\ DOMAIN input.v = {})
    THEN PyDict(EmptyDict)
    ELSE input


-----------------------------------------------------------------------------
(* What the collaborators can send.  An absent or None attribute of a      *)
(* block is "None" (type), <<>> (text, id, name: only their truth value or *)
(* their value when present is used) or PyNone (input).                    *)

Block(type, text, id, name, input) ==
    [type |-> type, text |-> text, id |-> id, name |-> name, input |-> input]

NoBlock == Block("None", <<>>, <<>>, <<>>, PyNone)
TextBlock(text) == Block("text", text, <<>>, <<>>, PyNone)
ThinkingBlock(text) == Block("thinking", text, <<>>, <<>>, PyNone)
ToolUseBlock(id, name, input) == Block("tool_use", <<>>, id, name, input)

TU1 == ToolUseBlock(<<"tool-1">>, <<"echo">>, PyDict([x \in {"x"} |-> 1]))
TU2 == ToolUseBlock(<<"tool-2">>, <<"add">>, PyNone)
ToolUseBlocks == {TU1, TU2}

Indices == {0, 1}

\* event.delta: a TextDelta has .text, a ThinkingDelta has .thinking, an
\* InputJSONDelta has neither
Delta(type, has_text, text, has_thinking, thinking) ==
    [type |-> type, has_text |-> has_text, text |-> text,
     has_thinking |-> has_thinking, thinking |-> thinking]

NoDelta == Delta("None", FALSE, <<>>, FALSE, <<>>)
TextDelta == Delta("text_delta", TRUE, <<"4">>, FALSE, <<>>)
TextDeltaNewline == Delta("text_delta", TRUE, <<"4", "\n">>, FALSE, <<>>)
ThinkingTextDelta == Delta("thinking_delta", FALSE, <<>>, TRUE, <<"t">>)
InputJSONDelta == Delta("input_json_delta", FALSE, <<>>, FALSE, <<>>)

Event(type, index, content_block, delta) ==
    [type |-> type, index |-> index, content_block |-> content_block, delta |-> delta]

BlockStart(index, type) ==
    Event("content_block_start", index, Block(type, <<>>, <<>>, <<>>, PyNone), NoDelta)
BlockDelta(index, delta) == Event("content_block_delta", index, NoBlock, delta)
BlockStop(index, block) == Event("content_block_stop", index, block, NoDelta)

\* The events a round can carry.  Block 0 is a thinking block when it is
\* started, block 1 an answer or tool-use block; deltas and stops also arrive
\* for blocks that were never started (as in the tests' fake streams), so
\* block 0 is an answer block when it is not started.  A text delta for a
\* started block 0 is thinking text by its block's declared type only; its
\* text ends with a newline.
Events ==
    { BlockStart(0, "thinking"),
      BlockDelta(0, TextDeltaNewline), BlockDelta(1, TextDelta),
      BlockDelta(0, ThinkingTextDelta), BlockDelta(1, InputJSONDelta),
      BlockStop(0, NoBlock),
      BlockStop(1, TU1), BlockStop(1, TU2) }

-----------------------------------------------------------------------------
(* The provider's view of a round's stream, and its final message *)

\* the type the block of the n-th event was started with in its round
DeclaredType(events, n) ==
    LET starts == { k \in 1..(n - 1) :
                      /\ events[k].type = "content_block_start"
                      /\ events[k].index = events[n].index }
    IN  IF starts = {} THEN "None"
        ELSE events[CHOOSE k \in starts : \A l \in starts : l <= k].content_block.type

\* the text a delta event carries, in its text or its thinking field
FragmentText(event) ==
    IF event.delta.has_text /\ event.delta.text # <<>> THEN event.delta.text
    ELSE IF event.delta.has_thinking THEN event.delta.thinking
    ELSE <<>>

IsFragment(events, n) ==
    events[n].type = "content_block_delta" /\ FragmentText(events[n]) # <<>>

\* a fragment is thinking by its block's declared type, by its thinking field
\* or by its thinking tag
IsThinkingFragment(events, n) ==
    /\ IsFragment(events, n)
    /\ \/ DeclaredType(events, n) = "thinking"
       \/ events[n].delta.has_thinking
       \/ events[n].delta.type = "thinking_delta"

RECURSIVE FragmentsUpTo(_, _, _)
\* the texts of the thinking (or answer) fragments among the first n events
FragmentsUpTo(events, n, thinking) ==
    IF n = 0 THEN <<>>
    ELSE FragmentsUpTo(events, n - 1, thinking)
         \o (IF IsFragment(events, n) /\ (IsThinkingFragment(events, n) = thinking)
             THEN <<FragmentText(events[n])>> ELSE <<>>)

\* the text of the answer fragments of block index among events
answer_text(events, index) ==
    LET IsAnswerOfBlock(n) ==
            /\ IsFragment(events, n)
            /\ ~IsThinkingFragment(events, n)
            /\ events[n].index = index
        RECURSIVE upto(_)
        upto(n) ==
            IF n = 0 THEN <<>>
            ELSE upto(n - 1) \o (IF IsAnswerOfBlock(n) THEN FragmentText(events[n]) ELSE <<>>)
    IN  upto(Len(events))

\* the message a provider aggregates from the stream it sent: a thinking block
\* (which has a thinking attribute and no text attribute) when the stream
\* carried thinking fragments, one text block per block with answer text, and
\* the finalized tool-use blocks
aggregated(events) ==
    LET stops == SelectSeq(events, LAMBDA e :
                     e.type = "content_block_stop" /\ e.content_block.type = "tool_use")
    IN  (IF FragmentsUpTo(events, Len(events), TRUE) # <<>>
         THEN <<ThinkingBlock(<<>>)>> ELSE <<>>)
        \o (IF answer_text(events, 0) # <<>>
            THEN <<TextBlock(answer_text(events, 0))>> ELSE <<>>)
        \o (IF answer_text(events, 1) # <<>>
            THEN <<TextBlock(answer_text(events, 1))>> ELSE <<>>)
        \o [i \in 1..Len(stops) |-> stops[i].content_block]

\* a final message that does not mirror the stream, as the tests' fakes build
\* them: a thinking block with a text attribute (the text a thinking fragment
\* of the stream carries), a text block, a tool-use block
FakeFinalMessage ==
    <<ThinkingBlock(<<"t">>), TextBlock(<<"b", "\n">>), TU1>>

\* stream.get_final_message().content after the stream carried events
FinalMessages(events) == {aggregated(events), FakeFinalMessage}

\* what mcp_client.call_tool can return: nothing, plain text, a JSON object
ToolOutputs ==
    { <<>>, <<"ok">>, <<"{", "\"", "r", "\"", ":", "1", "}">> }

InitialMessages == <<[role |-> "user", content |-> PyStr(<<"hi">>)]>>

-----------------------------------------------------------------------------
(* The items ask_stream yields *)

ContentDelta(text) == PyDict([delta |-> [content |-> text]])
ThinkingDelta_thinking_only(text) == PyDict([delta |-> [thinking |-> text]])
ThinkingDelta(text) == PyDict([delta |-> [thinking |-> text, content |-> text]])
StopItem == PyDict([delta |-> EmptyDict, finish_reason |-> "stop"])

ThoughtsMarker == <<"**Thoughts:**", "\n">>
SectionSeparator == <<"\n", "\n", "---", "\n", "\n">>
Newline == <<"\n">>
SimulatedResponse == <<"Simulated response.">>
NoContentPlaceholder == <<"No content returned by tool.">>

ToolCallDelta_raw_input(block) ==
    PyDict([delta |-> [tool_calls |-> <<
        [id |-> block.id,
         type |-> "function",
         function |-> [name |-> block.name,
                       arguments |-> json_dumps(block.input)]] >>]])

\* {"id", "type": "function", "function": {"name", "arguments"}}
ToolCallDelta(block) ==
    PyDict([delta |-> [tool_calls |-> <<
        [id |-> block.id,
         type |-> "function",
         function |-> [name |-> block.name,
                       arguments |-> json_dumps(or_empty_dict(block.input))]] >>]])

\* the backquote character and the three-backquote code fence, which a TLA+
\* string cannot hold
BQ == "<backquote>"
Fence == "<fence>"

\* the f-string of agent.py lines 195 and 198: two newlines, "Calling ", the
\* name in backquotes, " with args:", a fenced json block holding args
CallingLog(name, args) ==
    <<"\n", "\n", "Calling ", BQ>> \o name \o <<BQ, " with args:", "\n", Fence, "json", "\n">>
        \o args \o <<"\n", Fence>>

ResultLog_as_calling(name, output) == CallingLog(name, output)

\* the f-string of agent.py lines 220 and 224: two newlines, "Result from ",
\* the name in backquotes, ":", a fenced json block holding output, a newline
ResultLog(name, output) ==
    <<"\n", "\n", "Result from ", BQ>> \o name \o <<BQ, ":", "\n", Fence, "json", "\n">>
        \o output \o <<"\n", Fence, "\n">>

ToolResultDelta(block, rendered) ==
    PyDict([delta |-> [role |-> "tool",
                       tool_call_id |-> block.id,
                       content |-> ResultLog(block.name, rendered)]])

ToolResultBlockParam_without_id(tool_use_id, content) ==
    [type |-> "tool_result", tool_use_id |-> <<>>, content |-> content]

\* ToolResultBlockParam(type="tool_result", tool_use_id=..., content=...)
ToolResultBlockParam(tool_use_id, content) ==
    [type |-> "tool_result", tool_use_id |-> tool_use_id, content |-> content]


PyList(l) == [py |-> "list", v |-> l]

Message(role, content) == [role |-> role, content |-> content]

-----------------------------------------------------------------------------
(* ask_stream, statement by statement *)

\* line 131-133: the text payload of a content_block_delta event
delta_text(delta) ==
    LET text == IF delta.has_text THEN delta.text ELSE <<>>
    IN  IF text = <<>> /\ delta.has_thinking THEN delta.thinking ELSE text

\* line 136-140
is_thinking(block_type, delta) ==
    \/ block_type = "thinking"
    \/ delta.has_thinking
    \/ delta.type = "thinking_delta"

\* line 125-126: block_types after the event
block_types_after(types, event) ==
    IF event.type = "content_block_start"
    THEN [types EXCEPT ![event.index] = event.content_block.type]
    ELSE types

\* line 141-142: thinking_parts after the event
thinking_parts_after(parts, types, event) ==
    IF /\ event.type = "content_block_delta"
       /\ delta_text(event.delta) # <<>>
       /\ is_thinking(types[event.index], event.delta)
    THEN Append(parts, delta_text(event.delta))
    ELSE parts

tool_requests_after_dropping(reqs, event) == reqs

tool_requests_after_any_stop(reqs, event) ==
    IF event.type = "content_block_stop"
    THEN Append(reqs, event.content_block)
    ELSE reqs

\* line 153-154: tool_requests after the event
tool_requests_after(reqs, event) ==
    IF event.type = "content_block_stop" /\ event.content_block.type = "tool_use"
    THEN Append(reqs, event.content_block)
    ELSE reqs

\* line 127-128
yield_block_start(types, event, live) ==
    IF event.type = "content_block_start" /\ types[event.index] = "thinking" /\ live
    THEN <<ContentDelta(ThoughtsMarker)>>
    ELSE <<>>

\* line 129-147
yield_block_delta(types, event, live) ==
    IF event.type = "content_block_delta" /\ delta_text(event.delta) # <<>> /\ live
    THEN IF is_thinking(types[event.index], event.delta)
         THEN <<ThinkingDelta(delta_text(event.delta))>>
         ELSE <<ContentDelta(delta_text(event.delta))>>
    ELSE <<>>

yield_block_stop_in_any_mode(types, event, live) ==
    IF event.type = "content_block_stop"
    THEN (IF types[event.index] = "thinking"
          THEN <<ContentDelta(SectionSeparator)>> ELSE <<>>)
         \o <<ContentDelta(Newline)>>
    ELSE <<>>

\* line 148-151
yield_block_stop(types, event, live) ==
    IF event.type = "content_block_stop" /\ live
    THEN (IF types[event.index] = "thinking"
          THEN <<ContentDelta(SectionSeparator)>> ELSE <<>>)
         \o <<ContentDelta(Newline)>>
    ELSE <<>>

yield_tool_call_never(event, live) == <<>>

\* line 153-164
yield_tool_call(event, live) ==
    IF event.type = "content_block_stop" /\ event.content_block.type = "tool_use" /\ live
    THEN <<ToolCallDelta(event.content_block)>>
    ELSE <<>>

\* line 124-164: everything one event makes the generator yield, in order
yield_event(types, event, live) ==
    LET types1 == block_types_after(types, event)
    IN  yield_block_start(types1, event, live)
        \o yield_block_delta(types1, event, live)
        \o yield_block_stop(types1, event, live)
        \o yield_tool_call(event, live)

RECURSIVE texts_of_swapped(_, _)
texts_of_swapped(content, thinking) ==
    IF content = <<>> THEN <<>>
    ELSE LET block == Head(content)
             keep == block.text # <<>> /\ ((block.type = "thinking") # thinking)
         IN  (IF keep THEN <<block.text>> ELSE <<>>)
             \o texts_of_swapped(Tail(content), thinking)

RECURSIVE texts_of(_, _)
\* line 169-173 (thinking = FALSE) and 176-180 (thinking = TRUE)
texts_of(content, thinking) ==
    IF content = <<>> THEN <<>>
    ELSE LET block == Head(content)
             keep == block.text # <<>> /\ ((block.type = "thinking") = thinking)
         IN  (IF keep THEN <<block.text>> ELSE <<>>) \o texts_of(Tail(content), thinking)

no_tool_requests_at_most_one(reqs) == Len(reqs) <= 1

\* line 183: the round was the last one
no_tool_requests(reqs) == reqs = <<>>

current_tool_use_reversed(reqs, idx) == reqs[Len(reqs) + 1 - idx]

\* line 187: the tool request the for loop is at
current_tool_use(reqs, idx) == reqs[idx]

final_answer_always_labelled(thinking, answer) ==
    LET final_sections ==
            << <<"**Thoughts:**", "\n", "\n">> \o join(<<>>, thinking)
               \o <<"\n", "\n", "---", "\n", "\n", "**Answer:**", "\n", "\n">> >>
            \o truthy(answer)
    IN  strip(join(<<"\n", "\n">>, final_sections))

final_answer_thoughts_last(thinking, answer) ==
    LET final_sections ==
            truthy(answer)
            \o (IF thinking # <<>>
                THEN << <<"**Thoughts:**", "\n", "\n">> \o join(<<>>, thinking) >>
                ELSE <<>>)
    IN  strip(join(<<"\n", "\n">>, final_sections))

\* line 238-243
final_answer(thinking, answer) ==
    LET final_sections ==
            (IF thinking # <<>>
             THEN << <<"**Thoughts:**", "\n", "\n">> \o join(<<>>, thinking)
                     \o <<"\n", "\n", "---", "\n", "\n", "**Answer:**", "\n", "\n">> >>
             ELSE <<>>)
            \o truthy(answer)
    IN  strip(join(<<"\n", "\n">>, final_sections))

yield_final_no_marker(thinking, answer, live) ==
    IF live
    THEN <<ContentDelta(final_answer(thinking, answer))>>
    ELSE <<PyStr(final_answer(thinking, answer))>>

\* line 244-247
yield_final(thinking, answer, live) ==
    IF live THEN <<StopItem>> ELSE <<PyStr(final_answer(thinking, answer))>>

\* line 259: str(chunk); the repr of a dict is one atom
str(chunk) == IF chunk.py = "str" THEN chunk.v ELSE <<"<repr>">>

\* line 254-260: what ask returns for the items ask_stream yielded
ask(items) == strip(join(<<>>, [i \in 1..Len(items) |-> str(items[i])]))

\* line 205-207
parsed_tool_output(tool_output) ==
    IF json_loads(tool_output).ok THEN json_loads(tool_output).value ELSE PyStr(tool_output)

\* line 211-215
rendered_output(tool_output) ==
    IF parsed_tool_output(tool_output).py # "str"
    THEN json_dumps(parsed_tool_output(tool_output))
    ELSE parsed_tool_output(tool_output).v

tool_result_content_rendered(tool_output) ==
    IF tool_output # <<>> THEN rendered_output(tool_output) ELSE NoContentPlaceholder

\* line 230: tool_output or "No content returned by tool."
tool_result_content(tool_output) ==
    IF tool_output # <<>> THEN tool_output ELSE NoContentPlaceholder


\* mcp_client.py line 12-16
MCPToolDefinition(name, description, input_schema) ==
    [name |-> name, description |-> description, input_schema |-> input_schema]

\* mcp_client.py line 18-24
to_anthropic(tool) ==
    [name |-> tool.name, description |-> tool.description, input_schema |-> tool.input_schema]

\* what list_tools can return: no tool, or the tools the provider's blocks name
AdvertisedTools ==
    { <<>>,
      << MCPToolDefinition(<<"echo">>, <<"Echo">>, [type |-> "object"]),
         MCPToolDefinition(<<"add">>, <<>>, [type |-> "object"]) >> }

release_session_skipped(opened) == opened

\* line 123: leaving the async with block releases the round's session
release_session(opened) ==
    [i \in 1..Len(opened) |-> IF i = Len(opened) THEN "released" ELSE opened[i]]

\* what had happened when a collaborator call raised
failure_record(kind) ==
    [kind |-> kind, calls |-> Len(called), rounds |-> Len(requests),
     items |-> Len(out), msgs |-> Len(conversation)]

-----------------------------------------------------------------------------
(* The state machine of one request *)

\* a request is made; no encoder runs
Init ==
    /\ simulate \in BOOLEAN
    /\ stream_mode \in BOOLEAN
    /\ include_tool_logs \in BOOLEAN
    /\ messages = InitialMessages
    /\ pc = "start"
    /\ conversation = <<>>
    /\ answer_parts = <<>>
    /\ thinking_parts = <<>>
    /\ block_types = [i \in Indices |-> "None"]
    /\ tool_requests = <<>>
    /\ tool_results = <<>>
    /\ tool_idx = 1
    /\ session_open = FALSE
    /\ requests = <<>>
    /\ called = <<>>
    /\ returned = <<>>
    /\ stream_events = <<>>
    /\ round_log = <<>>
    /\ events_seen = 0
    /\ out = <<>>
    /\ tools = <<>>
    /\ sessions = <<>>
    /\ failures = <<>>
    /\ init_args = [api_key |-> PyStr(<<"abc123">>), model |-> PyStr(<<"claude-test">>),
                    simulate |-> simulate]
    /\ environ = [ANTHROPIC_API_KEY |-> PyStr(<<"test-key">>),
                  DEFAULT_MODEL |-> PyStr(<<"claude-3-opus">>), mcp_installed |-> TRUE]
    /\ api_key = PyStr(<<"abc123">>)
    /\ self_model = <<"claude-test">>
    /\ client = IF simulate THEN "None" ELSE "AsyncAnthropic"
    /\ mcp_client = IF simulate THEN "None" ELSE "MCPClient"
    /\ raised = "None"
    /\ running = 1
    /\ other = <<>>
    /\ max_events = MaxEvents
    /\ asked = 0
    /\ encoder = "none"
    /\ sse_pc = "idle"
    /\ sse_source = <<>>
    /\ sse_consumed = <<>>
    /\ sse_base = EmptyDict
    /\ sse_frames = <<>>
    /\ prompt_messages = <<>>
    /\ response = EmptyDict

\* line 81-88: simulation mode
Simulated ==
    /\ pc = "start"
    /\ simulate
    /\ out' = IF stream_mode
              THEN <<ContentDelta(SimulatedResponse), StopItem>>
              ELSE <<PyStr(SimulatedResponse)>>
    /\ pc' = "done"
    /\ UNCHANGED <<self_vars, other_vars, sse_vars>>
    /\ UNCHANGED <<tools, sessions, failures>>
    /\ UNCHANGED <<simulate, stream_mode, include_tool_logs, messages, conversation,
                   answer_parts, thinking_parts, block_types, tool_requests,
                   tool_results, tool_idx, session_open, requests, called, returned,
                   stream_events, round_log, events_seen>>

\* line 97-101: list_tools returned; the locals are set up
ListTools ==
    /\ pc = "start"
    /\ ~simulate
    /\ conversation' = messages
    /\ answer_parts' = <<>>
    /\ thinking_parts' = <<>>
    /\ pc' = "request"
    /\ UNCHANGED <<self_vars, other_vars, sse_vars>>
    /\ \E advertised \in AdvertisedTools :
          tools' = [i \in 1..Len(advertised) |-> to_anthropic(advertised[i])]
    /\ UNCHANGED <<sessions, failures>>
    /\ UNCHANGED <<simulate, stream_mode, include_tool_logs, messages, block_types,
                   tool_requests, tool_results, tool_idx, session_open, requests,
                   called, returned, stream_events, round_log, events_seen, out>>

\* line 97: list_tools raises, the exception leaves ask_stream
ListToolsFail ==
    /\ pc = "start"
    /\ ~simulate
    /\ failures' = Append(failures, failure_record("list_tools"))
    /\ pc' = "failed"
    /\ UNCHANGED <<self_vars, other_vars, sse_vars>>
    /\ UNCHANGED <<tools, sessions>>
    /\ UNCHANGED <<simulate, stream_mode, include_tool_logs, messages, conversation,
                   answer_parts, thinking_parts, block_types, tool_requests,
                   tool_results, tool_idx, session_open, requests, called, returned,
                   stream_events, round_log, events_seen, out>>

\* line 104-123: a round starts, the provider gets the conversation
OpenStream ==
    /\ pc = "request"
    /\ block_types' = [i \in Indices |-> "None"]
    /\ tool_requests' = <<>>
    /\ requests' = Append(requests, conversation)
    /\ session_open' = TRUE
    /\ stream_events' = <<>>
    /\ pc' = "streaming"
    /\ UNCHANGED <<self_vars, other_vars, sse_vars>>
    /\ sessions' = Append(sessions, "open")
    /\ UNCHANGED <<tools, failures>>
    /\ UNCHANGED <<simulate, stream_mode, include_tool_logs, messages, conversation,
                   answer_parts, thinking_parts, tool_results, tool_idx, called,
                   returned, round_log, events_seen, out>>

\* line 124-164: one event of the stream
StreamEvent ==
    /\ pc = "streaming"
    /\ events_seen < max_events
    /\ \E event \in Events :
        /\ block_types' = block_types_after(block_types, event)
        /\ thinking_parts' = thinking_parts_after(thinking_parts, block_types', event)
        /\ tool_requests' = tool_requests_after(tool_requests, event)
        /\ out' = out \o yield_event(block_types, event, stream_mode)
        /\ stream_events' = Append(stream_events, event)
    /\ events_seen' = events_seen + 1
    /\ UNCHANGED <<self_vars, other_vars, sse_vars>>
    /\ UNCHANGED <<tools, sessions, failures>>
    /\ UNCHANGED <<simulate, stream_mode, include_tool_logs, messages, pc, conversation,
                   answer_parts, tool_results, tool_idx, session_open, requests,
                   called, returned, round_log>>

RECURSIVE text_blocks_only(_)
text_blocks_only(content) ==
    IF content = <<>> THEN <<>>
    ELSE (IF Head(content).type = "text" THEN <<Head(content)>> ELSE <<>>)
         \o text_blocks_only(Tail(content))

assistant_message_text_only(content) == Message("assistant", PyList(text_blocks_only(content)))

assistant_message_when_live(content) ==
    Message("assistant", PyList(IF stream_mode THEN content ELSE <<>>))

\* line 167
assistant_message(content) == Message("assistant", PyList(content))

\* line 235
tool_results_message(results) == Message("user", PyList(results))

callers_messages_aliased(callers_list, private_list) == private_list

\* line 99: conversation is list(messages), a list of its own; what is
\* appended to it (lines 167, 235) does not reach the caller's list
callers_messages(callers_list, private_list) == callers_list

\* line 166-181: the stream ended, the final message is booked
book_final_message(content) ==
    /\ conversation' = Append(conversation, assistant_message(content))
    /\ messages' = callers_messages(messages, conversation')
    /\ answer_parts' = answer_parts \o texts_of(content, FALSE)
    /\ thinking_parts' = thinking_parts \o texts_of(content, TRUE)
    /\ round_log' = Append(round_log, [events |-> stream_events, content |-> content])
    /\ session_open' = FALSE
    /\ sessions' = release_session(sessions)

\* line 166-184, 237-247: a round without tool requests ends the request
StreamEndFinal ==
    /\ pc = "streaming"
    /\ no_tool_requests(tool_requests)
    /\ \E content \in FinalMessages(stream_events) : book_final_message(content)
    /\ out' = out \o yield_final(thinking_parts', answer_parts', stream_mode)
    /\ pc' = "done"
    /\ UNCHANGED <<self_vars, other_vars, sse_vars>>
    /\ UNCHANGED <<tools, failures>>
    /\ UNCHANGED <<simulate, stream_mode, include_tool_logs, block_types,
                   tool_requests, tool_results, tool_idx, requests, called, returned,
                   stream_events, events_seen>>

\* line 166-186: a round with tool requests goes on to the tool loop
StreamEndTools ==
    /\ pc = "streaming"
    /\ ~no_tool_requests(tool_requests)
    /\ \E content \in FinalMessages(stream_events) : book_final_message(content)
    /\ tool_results' = <<>>
    /\ tool_idx' = 1
    /\ pc' = "tools"
    /\ UNCHANGED <<self_vars, other_vars, sse_vars>>
    /\ UNCHANGED <<tools, failures>>
    /\ UNCHANGED <<simulate, stream_mode, include_tool_logs, block_types,
                   tool_requests, requests, called, returned, stream_events,
                   events_seen, out>>

\* the provider stream raises: the session is left, the exception leaves ask_stream
StreamFail ==
    /\ pc = "streaming"
    /\ session_open' = FALSE
    /\ pc' = "failed"
    /\ UNCHANGED <<self_vars, other_vars, sse_vars>>
    /\ sessions' = release_session(sessions)
    /\ failures' = Append(failures, failure_record("stream"))
    /\ UNCHANGED tools
    /\ UNCHANGED <<simulate, stream_mode, include_tool_logs, messages, conversation,
                   answer_parts, thinking_parts, block_types, tool_requests,
                   tool_results, tool_idx, requests, called, returned, stream_events, round_log,
                   events_seen, out>>

\* line 187-202: up to the call of the tool executor
ToolCallStart ==
    /\ pc = "tools"
    /\ LET tool_use == current_tool_use(tool_requests, tool_idx)
           args == or_empty_dict(tool_use.input)
       IN  /\ out' = IF stream_mode /\ include_tool_logs
                     THEN Append(out, PyStr(CallingLog(tool_use.name, json_dumps(args))))
                     ELSE out
           /\ answer_parts' =
                 IF include_tool_logs
                 THEN Append(answer_parts, CallingLog(tool_use.name, json_dumps_indent2(args)))
                 ELSE answer_parts
           /\ called' = Append(called, [tool_name |-> tool_use.name, arguments |-> args])
    /\ pc' = "calling"
    /\ UNCHANGED <<self_vars, other_vars, sse_vars>>
    /\ UNCHANGED <<tools, sessions, failures>>
    /\ UNCHANGED <<simulate, stream_mode, include_tool_logs, messages, conversation,
                   thinking_parts, block_types, tool_requests, tool_results, tool_idx,
                   session_open, requests, returned, stream_events, round_log, events_seen>>

\* line 200-235: the tool executor returned tool_output
ToolCallReturn ==
    /\ pc = "calling"
    /\ \E tool_output \in ToolOutputs :
        LET tool_use == current_tool_use(tool_requests, tool_idx)
            results == Append(tool_results,
                              ToolResultBlockParam(tool_use.id, tool_result_content(tool_output)))
        IN  /\ out' = IF stream_mode /\ tool_output # <<>> /\ include_tool_logs
                      THEN Append(out, ToolResultDelta(tool_use, rendered_output(tool_output)))
                      ELSE out
            /\ answer_parts' =
                  IF include_tool_logs
                  THEN Append(answer_parts, ResultLog(tool_use.name, tool_output))
                  ELSE answer_parts
            /\ tool_results' = results
            /\ returned' = Append(returned, tool_output)
            /\ IF tool_idx = Len(tool_requests)
               THEN /\ conversation' = Append(conversation, tool_results_message(results))
                    /\ pc' = "request"
                    /\ tool_idx' = tool_idx
               ELSE /\ conversation' = conversation
                    /\ pc' = "tools"
                    /\ tool_idx' = tool_idx + 1
    /\ messages' = callers_messages(messages, conversation')
    /\ UNCHANGED <<self_vars, other_vars, sse_vars>>
    /\ UNCHANGED <<tools, sessions, failures>>
    /\ UNCHANGED <<simulate, stream_mode, include_tool_logs, thinking_parts,
                   block_types, tool_requests, session_open, requests, called,
                   stream_events, round_log, events_seen>>

ToolCallFail_retried ==
    /\ pc = "calling"
    /\ failures' = Append(failures, failure_record("call_tool"))
    /\ pc' = "tools"
    /\ UNCHANGED <<self_vars, other_vars, sse_vars>>
    /\ UNCHANGED <<tools, sessions>>
    /\ UNCHANGED <<simulate, stream_mode, include_tool_logs, messages, conversation,
                   answer_parts, thinking_parts, block_types, tool_requests,
                   tool_results, tool_idx, session_open, requests, called, returned,
                   stream_events, round_log, events_seen, out>>

\* line 200: the tool executor raises, the exception leaves ask_stream
ToolCallFail ==
    /\ pc = "calling"
    /\ pc' = "failed"
    /\ UNCHANGED <<self_vars, other_vars, sse_vars>>
    /\ failures' = Append(failures, failure_record("call_tool"))
    /\ UNCHANGED <<tools, sessions>>
    /\ UNCHANGED <<simulate, stream_mode, include_tool_logs, messages, conversation,
                   answer_parts, thinking_parts, block_types, tool_requests,
                   tool_results, tool_idx, session_open, requests, called, returned,
                   stream_events, round_log, events_seen, out>>

Next ==
    \/ Simulated
    \/ ListTools
    \/ ListToolsFail
    \/ OpenStream
    \/ StreamEvent
    \/ StreamEndFinal
    \/ StreamEndTools
    \/ StreamFail
    \/ ToolCallStart
    \/ ToolCallReturn
    \/ ToolCallFail

Spec == Init /\ [][Next]_vars

-----------------------------------------------------------------------------
(* Two invocations of ask_stream on one agent, on one event loop: one runs  *)
(* until it is suspended at an await or a yield, where the other can resume *)

\* the frame of the running invocation: its arguments and locals, and what
\* its collaborators and its consumer have seen of it
Frame ==
    [stream_mode |-> stream_mode, include_tool_logs |-> include_tool_logs,
     messages |-> messages, pc |-> pc, conversation |-> conversation,
     answer_parts |-> answer_parts, thinking_parts |-> thinking_parts,
     block_types |-> block_types, tool_requests |-> tool_requests,
     tool_results |-> tool_results, tool_idx |-> tool_idx,
     session_open |-> session_open, tools |-> tools, requests |-> requests,
     called |-> called, returned |-> returned, stream_events |-> stream_events,
     round_log |-> round_log, events_seen |-> events_seen, out |-> out,
     sessions |-> sessions, failures |-> failures, max_events |-> max_events]

\* a second request, in collected mode and without tool logs, whose provider
\* sends streams without events
SecondInvocation ==
    [stream_mode |-> FALSE, include_tool_logs |-> FALSE,
     messages |-> <<[role |-> "user", content |-> PyStr(<<"2+2?">>)]>>,
     pc |-> "start", conversation |-> <<>>,
     answer_parts |-> <<>>, thinking_parts |-> <<>>,
     block_types |-> [i \in Indices |-> "None"], tool_requests |-> <<>>,
     tool_results |-> <<>>, tool_idx |-> 1,
     session_open |-> FALSE, tools |-> <<>>, requests |-> <<>>,
     called |-> <<>>, returned |-> <<>>, stream_events |-> <<>>,
     round_log |-> <<>>, events_seen |-> 0, out |-> <<>>,
     sessions |-> <<>>, failures |-> <<>>, max_events |-> 0]

answer_parts_on_self(frame, shared) == shared

\* line 100: answer_parts is a local of the invocation, kept in its frame
local_answer_parts(frame, shared) == frame.answer_parts

conversation_on_self(frame, shared) == shared

\* line 99: conversation is a local of the invocation, a copy of messages
local_conversation(frame, shared) == frame.conversation

\* two requests are made to one agent
InitTwo ==
    /\ simulate \in BOOLEAN
    /\ stream_mode \in BOOLEAN
    /\ include_tool_logs = TRUE
    /\ messages = InitialMessages
    /\ pc = "start"
    /\ conversation = <<>>
    /\ answer_parts = <<>>
    /\ thinking_parts = <<>>
    /\ block_types = [i \in Indices |-> "None"]
    /\ tool_requests = <<>>
    /\ tool_results = <<>>
    /\ tool_idx = 1
    /\ session_open = FALSE
    /\ requests = <<>>
    /\ called = <<>>
    /\ returned = <<>>
    /\ stream_events = <<>>
    /\ round_log = <<>>
    /\ events_seen = 0
    /\ out = <<>>
    /\ tools = <<>>
    /\ sessions = <<>>
    /\ failures = <<>>
    /\ init_args = [api_key |-> PyStr(<<"abc123">>), model |-> PyStr(<<"claude-test">>),
                    simulate |-> simulate]
    /\ environ = [ANTHROPIC_API_KEY |-> PyStr(<<"test-key">>),
                  DEFAULT_MODEL |-> PyStr(<<"claude-3-opus">>), mcp_installed |-> TRUE]
    /\ api_key = PyStr(<<"abc123">>)
    /\ self_model = <<"claude-test">>
    /\ client = IF simulate THEN "None" ELSE "AsyncAnthropic"
    /\ mcp_client = IF simulate THEN "None" ELSE "MCPClient"
    /\ raised = "None"
    /\ running = 1
    /\ other = <<SecondInvocation>>
    /\ max_events = MaxEventsNew
    /\ asked = 0
    /\ encoder = "none"
    /\ sse_pc = "idle"
    /\ sse_source = <<>>
    /\ sse_consumed = <<>>
    /\ sse_base = EmptyDict
    /\ sse_frames = <<>>
    /\ prompt_messages = <<>>
    /\ response = EmptyDict

\* the running invocation is suspended where it stands and the other resumes
\* with its own frame
Switch ==
    /\ other # <<>>
    /\ other' = <<Frame>>
    /\ running' = 3 - running
    /\ stream_mode' = other[1].stream_mode
    /\ include_tool_logs' = other[1].include_tool_logs
    /\ messages' = other[1].messages
    /\ pc' = other[1].pc
    /\ conversation' = local_conversation(other[1], conversation)
    /\ answer_parts' = local_answer_parts(other[1], answer_parts)
    /\ thinking_parts' = other[1].thinking_parts
    /\ block_types' = other[1].block_types
    /\ tool_requests' = other[1].tool_requests
    /\ tool_results' = other[1].tool_results
    /\ tool_idx' = other[1].tool_idx
    /\ session_open' = other[1].session_open
    /\ tools' = other[1].tools
    /\ requests' = other[1].requests
    /\ called' = other[1].called
    /\ returned' = other[1].returned
    /\ stream_events' = other[1].stream_events
    /\ round_log' = other[1].round_log
    /\ events_seen' = other[1].events_seen
    /\ out' = other[1].out
    /\ sessions' = other[1].sessions
    /\ failures' = other[1].failures
    /\ max_events' = other[1].max_events
    /\ UNCHANGED asked
    /\ UNCHANGED <<simulate, self_vars, sse_vars>>

NextTwo ==
    \/ Switch
    \/ Next

SpecTwo == InitTwo /\ [][NextTwo]_vars

-----------------------------------------------------------------------------
(* One request made twice, in two output modes, to collaborators that      *)
(* behave the same both times: the first run takes a step, then the second *)
(* takes the step in which its collaborators do what the first run's did   *)

\* what the collaborators of an invocation have done, and the collaborator
\* operation the invocation is at
CollaboratorSide(frame) ==
    [pc |-> frame.pc, tools |-> frame.tools, sessions |-> frame.sessions,
     stream_events |-> frame.stream_events, round_log |-> frame.round_log,
     returned |-> frame.returned,
     failed |-> [i \in 1..Len(frame.failures) |-> frame.failures[i].kind]]

\* the collaborators of the two runs have done the same
InSync == CollaboratorSide(Frame) = CollaboratorSide(other[1])

\* the first run is live with tool logs, the second is in any of the modes
InitModes ==
    /\ simulate = FALSE
    /\ stream_mode = TRUE
    /\ include_tool_logs = TRUE
    /\ messages = InitialMessages
    /\ pc = "start"
    /\ conversation = <<>>
    /\ answer_parts = <<>>
    /\ thinking_parts = <<>>
    /\ block_types = [i \in Indices |-> "None"]
    /\ tool_requests = <<>>
    /\ tool_results = <<>>
    /\ tool_idx = 1
    /\ session_open = FALSE
    /\ requests = <<>>
    /\ called = <<>>
    /\ returned = <<>>
    /\ stream_events = <<>>
    /\ round_log = <<>>
    /\ events_seen = 0
    /\ out = <<>>
    /\ tools = <<>>
    /\ sessions = <<>>
    /\ failures = <<>>
    /\ init_args = [api_key |-> PyStr(<<"abc123">>), model |-> PyStr(<<"claude-test">>),
                    simulate |-> FALSE]
    /\ environ = [ANTHROPIC_API_KEY |-> PyStr(<<"test-key">>),
                  DEFAULT_MODEL |-> PyStr(<<"claude-3-opus">>), mcp_installed |-> TRUE]
    /\ api_key = PyStr(<<"abc123">>)
    /\ self_model = <<"claude-test">>
    /\ client = "AsyncAnthropic"
    /\ mcp_client = "MCPClient"
    /\ raised = "None"
    /\ running = 1
    /\ other \in { <<[SecondInvocation EXCEPT !.stream_mode = live,
                                             !.include_tool_logs = logs,
                                             !.messages = InitialMessages,
                                             !.max_events = MaxEventsNew]>> :
                      live \in BOOLEAN, logs \in BOOLEAN }
    /\ max_events = MaxEventsNew
    /\ asked = 0
    /\ encoder = "none"
    /\ sse_pc = "idle"
    /\ sse_source = <<>>
    /\ sse_consumed = <<>>
    /\ sse_base = EmptyDict
    /\ sse_frames = <<>>
    /\ prompt_messages = <<>>
    /\ response = EmptyDict

\* the first run may take a step when the second has caught up; the second
\* takes the steps that catch up
MayStep == (running = 1 /\ InSync) \/ (running = 2 /\ ~InSync)

\* the second run's collaborators do in its step what the first run's did
CatchesUp == running = 2 => InSync'

\* the run that has taken its step gives way to the other
GivesWay == (running = 1 /\ ~InSync) \/ (running = 2 /\ InSync)

NextModes ==
    \/ GivesWay /\ Switch
    \/ MayStep /\ ListTools /\ CatchesUp
    \/ MayStep /\ ListToolsFail /\ CatchesUp
    \/ MayStep /\ OpenStream /\ CatchesUp
    \/ MayStep /\ StreamEvent /\ CatchesUp
    \/ MayStep /\ StreamEndFinal /\ CatchesUp
    \/ MayStep /\ StreamEndTools /\ CatchesUp
    \/ MayStep /\ StreamFail /\ CatchesUp
    \/ MayStep /\ ToolCallStart /\ CatchesUp
    \/ MayStep /\ ToolCallReturn /\ CatchesUp
    \/ MayStep /\ ToolCallFail /\ CatchesUp

SpecModes == InitModes /\ [][NextModes]_vars

-----------------------------------------------------------------------------
(* ask_stream as the async generator it is: it runs from one yield to the   *)
(* next when its consumer asks for an item, and not otherwise               *)

resumes_unasked(requested, yielded) == TRUE

\* line 70-76: the body of an async generator runs only while an item that
\* was asked for has not been yielded
resumes(requested, yielded) == requested > yielded

\* a live request whose consumer asks for one item at a time
InitConsumer ==
    /\ simulate = FALSE
    /\ stream_mode = TRUE
    /\ include_tool_logs \in BOOLEAN
    /\ messages = InitialMessages
    /\ pc = "start"
    /\ conversation = <<>>
    /\ answer_parts = <<>>
    /\ thinking_parts = <<>>
    /\ block_types = [i \in Indices |-> "None"]
    /\ tool_requests = <<>>
    /\ tool_results = <<>>
    /\ tool_idx = 1
    /\ session_open = FALSE
    /\ requests = <<>>
    /\ called = <<>>
    /\ returned = <<>>
    /\ stream_events = <<>>
    /\ round_log = <<>>
    /\ events_seen = 0
    /\ out = <<>>
    /\ tools = <<>>
    /\ sessions = <<>>
    /\ failures = <<>>
    /\ init_args = [api_key |-> PyStr(<<"abc123">>), model |-> PyStr(<<"claude-test">>),
                    simulate |-> FALSE]
    /\ environ = [ANTHROPIC_API_KEY |-> PyStr(<<"test-key">>),
                  DEFAULT_MODEL |-> PyStr(<<"claude-3-opus">>), mcp_installed |-> TRUE]
    /\ api_key = PyStr(<<"abc123">>)
    /\ self_model = <<"claude-test">>
    /\ client = "AsyncAnthropic"
    /\ mcp_client = "MCPClient"
    /\ raised = "None"
    /\ running = 1
    /\ other = <<>>
    /\ max_events = MaxEventsNew
    /\ asked = 0
    /\ encoder = "none"
    /\ sse_pc = "idle"
    /\ sse_source = <<>>
    /\ sse_consumed = <<>>
    /\ sse_base = EmptyDict
    /\ sse_frames = <<>>
    /\ prompt_messages = <<>>
    /\ response = EmptyDict

\* the consumer, holding every item it asked for, asks for the next one
Ask ==
    /\ asked <= Len(out)
    /\ asked' = asked + 1
    /\ UNCHANGED <<running, other, max_events>>
    /\ UNCHANGED <<agent_vars, self_vars, sse_vars>>

\* line 187-195: the calling log is yielded, the generator is suspended
\* before the call
ToolLogYield ==
    /\ pc = "tools"
    /\ stream_mode /\ include_tool_logs
    /\ LET tool_use == current_tool_use(tool_requests, tool_idx)
           args == or_empty_dict(tool_use.input)
       IN  out' = Append(out, PyStr(CallingLog(tool_use.name, json_dumps(args))))
    /\ pc' = "logged"
    /\ UNCHANGED <<self_vars, other_vars, sse_vars>>
    /\ UNCHANGED <<tools, sessions, failures>>
    /\ UNCHANGED <<simulate, stream_mode, include_tool_logs, messages, conversation,
                   answer_parts, thinking_parts, block_types, tool_requests,
                   tool_results, tool_idx, session_open, requests, called, returned,
                   stream_events, round_log, events_seen>>

\* line 197-202: resumed after the calling log, or without one, up to the
\* call of the tool executor
ToolCallBegin ==
    /\ \/ pc = "logged"
       \/ pc = "tools" /\ ~(stream_mode /\ include_tool_logs)
    /\ LET tool_use == current_tool_use(tool_requests, tool_idx)
           args == or_empty_dict(tool_use.input)
       IN  /\ answer_parts' =
                 IF include_tool_logs
                 THEN Append(answer_parts, CallingLog(tool_use.name, json_dumps_indent2(args)))
                 ELSE answer_parts
           /\ called' = Append(called, [tool_name |-> tool_use.name, arguments |-> args])
    /\ pc' = "calling"
    /\ UNCHANGED <<self_vars, other_vars, sse_vars>>
    /\ UNCHANGED <<tools, sessions, failures>>
    /\ UNCHANGED <<simulate, stream_mode, include_tool_logs, messages, conversation,
                   thinking_parts, block_types, tool_requests, tool_results, tool_idx,
                   session_open, requests, returned, stream_events, round_log,
                   events_seen, out>>

\* the consumer asks, or the generator takes a step on behalf of a consumer
\* that waits
NextConsumer ==
    \/ Ask
    \/ resumes(asked, Len(out)) /\ ListTools
    \/ resumes(asked, Len(out)) /\ ListToolsFail
    \/ resumes(asked, Len(out)) /\ OpenStream
    \/ resumes(asked, Len(out)) /\ StreamEvent
    \/ resumes(asked, Len(out)) /\ StreamEndFinal
    \/ resumes(asked, Len(out)) /\ StreamEndTools
    \/ resumes(asked, Len(out)) /\ StreamFail
    \/ resumes(asked, Len(out)) /\ ToolLogYield
    \/ resumes(asked, Len(out)) /\ ToolCallBegin
    \/ resumes(asked, Len(out)) /\ ToolCallReturn
    \/ resumes(asked, Len(out)) /\ ToolCallFail

SpecConsumer == InitConsumer /\ [][NextConsumer]_vars

-----------------------------------------------------------------------------
(* The constructor *)

\* bool(x) of None or a str
py_truthy(x) == x.py = "str" /\ x.v # <<>>

\* a or b
py_or(a, b) == IF py_truthy(a) THEN a ELSE b

\* line 262-268: (model or DEFAULT_MODEL).strip(), without a leading
\* "anthropic:"; None has no strip
_normalize_model(model, DEFAULT_MODEL) ==
    LET chosen == py_or(model, DEFAULT_MODEL)
        normalized == strip(chosen.v)
    IN  IF chosen.py = "None"
        THEN [raised |-> "AttributeError", value |-> <<>>]
        ELSE [raised |-> "None",
              value |-> IF normalized # <<>> /\ Head(normalized) = "anthropic:"
                        THEN Tail(normalized)
                        ELSE normalized]

requires_api_key_always(key, simulated) == ~py_truthy(key)

\* line 64: not self.api_key and not self.simulate
requires_api_key(key, simulated) == ~py_truthy(key) /\ ~simulated

\* what the constructor can be given and what the environment can hold
ApiKeys == { PyNone, PyStr(<<>>), PyStr(<<"abc123">>) }
EnvApiKeys == { PyNone, PyStr(<<>>), PyStr(<<"test-key">>) }
Models == { PyNone, PyStr(<<"anthropic:", "claude-test">>), PyStr(<<" ", "claude-test">>) }
EnvModels == { PyNone, PyStr(<<"claude-3-opus">>) }

\* an agent is about to be constructed, and then asked once
InitNew ==
    /\ init_args \in [api_key : ApiKeys, model : Models, simulate : BOOLEAN]
    /\ environ \in [ANTHROPIC_API_KEY : EnvApiKeys, DEFAULT_MODEL : EnvModels,
                     mcp_installed : BOOLEAN]
    /\ simulate = FALSE
    /\ api_key = PyNone
    /\ self_model = <<>>
    /\ client = "None"
    /\ mcp_client = "None"
    /\ raised = "None"
    /\ stream_mode \in BOOLEAN
    /\ include_tool_logs = TRUE
    /\ messages = InitialMessages
    /\ pc = "new"
    /\ conversation = <<>>
    /\ answer_parts = <<>>
    /\ thinking_parts = <<>>
    /\ block_types = [i \in Indices |-> "None"]
    /\ tool_requests = <<>>
    /\ tool_results = <<>>
    /\ tool_idx = 1
    /\ session_open = FALSE
    /\ requests = <<>>
    /\ called = <<>>
    /\ returned = <<>>
    /\ stream_events = <<>>
    /\ round_log = <<>>
    /\ events_seen = 0
    /\ out = <<>>
    /\ tools = <<>>
    /\ sessions = <<>>
    /\ failures = <<>>
    /\ running = 1
    /\ other = <<>>
    /\ max_events = MaxEventsNew
    /\ asked = 0
    /\ encoder = "none"
    /\ sse_pc = "idle"
    /\ sse_source = <<>>
    /\ sse_consumed = <<>>
    /\ sse_base = EmptyDict
    /\ sse_frames = <<>>
    /\ prompt_messages = <<>>
    /\ response = EmptyDict

\* line 51-68: __init__; the fields after a raised exception are those set
\* before it.  MCPClient(...) raises when the mcp package cannot be imported
\* (mcp_client.py line 32-40).
Construct ==
    /\ pc = "new"
    /\ LET normalized == _normalize_model(init_args.model, environ.DEFAULT_MODEL)
           key == py_or(init_args.api_key, environ.ANTHROPIC_API_KEY)
       IN  IF normalized.raised # "None"
           THEN /\ raised' = normalized.raised
                /\ pc' = "raised"
                /\ UNCHANGED <<self_model, simulate, api_key, client, mcp_client>>
           ELSE /\ self_model' = normalized.value
                /\ simulate' = init_args.simulate
                /\ api_key' = key
                /\ IF requires_api_key(key, init_args.simulate)
                   THEN /\ raised' = "ValueError"
                        /\ pc' = "raised"
                        /\ UNCHANGED <<client, mcp_client>>
                   ELSE /\ client' = IF init_args.simulate THEN "None" ELSE "AsyncAnthropic"
                        /\ IF ~init_args.simulate /\ ~environ.mcp_installed
                           THEN /\ raised' = "RuntimeError"
                                /\ pc' = "raised"
                                /\ UNCHANGED mcp_client
                           ELSE /\ mcp_client' = IF init_args.simulate THEN "None"
                                                 ELSE "MCPClient"
                                /\ raised' = "None"
                                /\ pc' = "start"
    /\ UNCHANGED <<init_args, environ, other_vars, sse_vars>>
    /\ UNCHANGED <<stream_mode, include_tool_logs, messages, conversation,
                   answer_parts, thinking_parts, block_types, tool_requests,
                   tool_results, tool_idx, session_open, requests, called, returned,
                   stream_events, round_log, events_seen, out, tools, sessions, failures>>

NextNew ==
    \/ Construct
    \/ Next

SpecNew == InitNew /\ [][NextNew]_vars

\* the steps in which no collaborator raises
Progress ==
    \/ Simulated
    \/ ListTools
    \/ OpenStream
    \/ StreamEvent
    \/ StreamEndFinal
    \/ StreamEndTools
    \/ ToolCallStart
    \/ ToolCallReturn

\* the consumer keeps iterating and the collaborators keep answering: a
\* request that can go on without a failure does go on
SpecLive == Init /\ [][Next]_vars /\ WF_vars(Progress)


-----------------------------------------------------------------------------
(* openai_adapter.py: the encoders.  The None of a finish_reason is the    *)
(* string "null"; a content value handed to an encoder keeps its tag.      *)

ModelName == "test-model"

\* what uuid4 and time.time can give the envelope
EnvelopeIds == {"chatcmpl-1", "chatcmpl-2"}
EnvelopeTimes == {1700000000}

\* line 11-17
_base_payload(id, created, model) ==
    [id |-> id, object |-> "chat.completion", created |-> created, model |-> model]

\* line 20-28
_delta_content(chunk) == chunk

\* {**a, **b}
merge(a, b) ==
    [k \in DOMAIN a \cup DOMAIN b |-> IF k \in DOMAIN b THEN b[k] ELSE a[k]]

\* f"data: {json.dumps(payload)}\n\n": the body is the JSON object text of payload
DataFrame(payload) ==
    [prefix |-> "data: ", body |-> [kind |-> "json_object", payload |-> payload],
     suffix |-> <<"\n", "\n">>]

\* "data: [DONE]\n\n"
DoneFrame ==
    [prefix |-> "data: ", body |-> [kind |-> "literal", payload |-> [text |-> "[DONE]"]],
     suffix |-> <<"\n", "\n">>]

Choice(delta, finish_reason) ==
    [index |-> 0, delta |-> delta, finish_reason |-> finish_reason]

\* line 37-47 and 108-112
chunk_payload(base, choice) ==
    merge(base, [object |-> "chat.completion.chunk", choices |-> <<choice>>])

\* line 36-48: the frame of sse_chat_completions for one chunk
sync_frame(base, chunk) ==
    DataFrame(chunk_payload(base, Choice([content |-> _delta_content(chunk)], "null")))

\* line 101-102: chunk.get("delta", {}), {} when it is None
delta_of(dict) ==
    IF "delta" \in DOMAIN dict /\ dict.delta # PyNone THEN dict.delta ELSE EmptyDict

finish_reason_of_dropped(dict) == "null"

\* line 103-104
finish_reason_of(dict) ==
    IF "finish_reason" \in DOMAIN dict THEN dict.finish_reason ELSE "null"

async_frame_overwriting(base, chunk) ==
    IF chunk.py = "dict"
    THEN IF "choices" \in DOMAIN chunk.v
         THEN DataFrame(merge(chunk.v, base))
         ELSE DataFrame(chunk_payload(base, Choice(delta_of(chunk.v), finish_reason_of(chunk.v))))
    ELSE DataFrame(chunk_payload(base, Choice([content |-> _delta_content(chunk)], "null")))

\* line 92-113: the frame of async_sse_chat_completions for one chunk
async_frame(base, chunk) ==
    IF chunk.py = "dict"
    THEN IF "choices" \in DOMAIN chunk.v
         THEN DataFrame(merge(base, chunk.v))
         ELSE DataFrame(chunk_payload(base, Choice(delta_of(chunk.v), finish_reason_of(chunk.v))))
    ELSE DataFrame(chunk_payload(base, Choice([content |-> _delta_content(chunk)], "null")))

no_frames(frames) == <<>>

\* line 50 and 114: the frames yielded once the source is exhausted
closing_frames(frames) == <<DoneFrame>>

PreShapedChoices ==
    <<[index |-> 0, delta |-> [content |-> <<"done">>], finish_reason |-> "stop"]>>

\* the items a source can hold: strings (one of them the text of the closing
\* frame), deltas as ask_stream yields them, a delta that is None, a dict
\* without delta, and pre-shaped chunks: one with choices only, one with the
\* object key of a chunk, one that sets envelope keys itself
SourceItems ==
    { PyStr(<<"hi">>),
      PyDict([choices |-> PreShapedChoices]),
      PyStr(<<"data: [DONE]", "\n", "\n">>),
      PyDict([delta |-> [content |-> <<"piece">>], finish_reason |-> "null"]),
      StopItem,
      PyDict([delta |-> PyNone]),
      PyDict([choices |-> PreShapedChoices, object |-> "chat.completion.chunk"]),
      PyDict([choices |-> PreShapedChoices, id |-> "upstream-id", model |-> "upstream-model",
              object |-> "custom.object", extra |-> "kept"]) }

\* the prompt texts a caller passes along
PromptMessages == { <<>>, << <<"p1">> >>, << <<"p1">>, <<"p2">> >> }

\* line 57: all(isinstance(chunk, str) for chunk in chunk_iterable)
all_str(chunk_iterable) ==
    \A i \in 1..Len(chunk_iterable) : chunk_iterable[i].py = "str"

response_content_always_list(chunk_iterable) ==
    IF all_str(chunk_iterable)
    THEN PyStr(join(<<>>, [i \in 1..Len(chunk_iterable) |-> chunk_iterable[i].v]))
    ELSE PyList(chunk_iterable)

\* line 57-65
response_content(chunk_iterable) ==
    IF all_str(chunk_iterable)
    THEN PyStr(join(<<>>, [i \in 1..Len(chunk_iterable) |-> chunk_iterable[i].v]))
    ELSE IF Len(chunk_iterable) = 1 THEN chunk_iterable[1]
    ELSE PyList(chunk_iterable)

\* line 53-84; id and created are what uuid4 and time.time give _base_payload
chat_completion_response(chunk_iterable, model, prompts, id, created) ==
    merge(_base_payload(id, created, model),
          [usage |-> [prompt_tokens |-> "null",
                      completion_tokens |-> "null",
                      total_tokens |-> "null"],
           choices |-> << [index |-> 0,
                           message |-> [role |-> "assistant",
                                        content |-> response_content(chunk_iterable)],
                           finish_reason |-> "stop",
                           prompt |-> prompts] >>])

RECURSIVE SeqsUpTo(_, _)
SeqsUpTo(S, n) ==
    IF n = 0 THEN {<<>>}
    ELSE SeqsUpTo(S, n - 1)
         \cup { Append(q, x) : q \in { t \in SeqsUpTo(S, n - 1) : Len(t) = n - 1 }, x \in S }

\* an encoder is handed a source and a model name; no request runs
InitSSE ==
    /\ encoder \in {"sync", "async", "response"}
    /\ sse_pc = IF encoder = "response" THEN "call" ELSE "start"
    /\ prompt_messages \in (IF encoder = "response" THEN PromptMessages ELSE {<<>>})
    /\ sse_source \in SeqsUpTo(SourceItems, MaxItems)
    /\ sse_consumed = <<>>
    /\ sse_base = EmptyDict
    /\ sse_frames = <<>>
    /\ simulate = FALSE
    /\ stream_mode = TRUE
    /\ include_tool_logs = TRUE
    /\ messages = InitialMessages
    /\ pc = "start"
    /\ conversation = <<>>
    /\ answer_parts = <<>>
    /\ thinking_parts = <<>>
    /\ block_types = [i \in Indices |-> "None"]
    /\ tool_requests = <<>>
    /\ tool_results = <<>>
    /\ tool_idx = 1
    /\ session_open = FALSE
    /\ requests = <<>>
    /\ called = <<>>
    /\ returned = <<>>
    /\ stream_events = <<>>
    /\ round_log = <<>>
    /\ events_seen = 0
    /\ out = <<>>
    /\ tools = <<>>
    /\ sessions = <<>>
    /\ failures = <<>>
    /\ init_args = [api_key |-> PyStr(<<"abc123">>), model |-> PyStr(<<"claude-test">>),
                    simulate |-> FALSE]
    /\ environ = [ANTHROPIC_API_KEY |-> PyStr(<<"test-key">>),
                  DEFAULT_MODEL |-> PyStr(<<"claude-3-opus">>), mcp_installed |-> TRUE]
    /\ api_key = PyStr(<<"abc123">>)
    /\ self_model = <<"claude-test">>
    /\ client = "AsyncAnthropic"
    /\ mcp_client = "MCPClient"
    /\ raised = "None"
    /\ running = 1
    /\ other = <<>>
    /\ max_events = MaxEvents
    /\ asked = 0
    /\ response = EmptyDict

\* line 35 and 91: base = _base_payload(model)
EncoderStart ==
    /\ sse_pc = "start"
    /\ \E id \in EnvelopeIds, created \in EnvelopeTimes :
          sse_base' = _base_payload(id, created, ModelName)
    /\ sse_pc' = "loop"
    /\ UNCHANGED <<encoder, sse_source, sse_consumed, sse_frames, prompt_messages, response>>
    /\ UNCHANGED <<agent_vars, self_vars, other_vars>>

\* line 36-48 and 92-113: one item of the source
EncoderItem ==
    /\ sse_pc = "loop"
    /\ sse_source # <<>>
    /\ sse_frames' = Append(sse_frames,
                            IF encoder = "sync"
                            THEN sync_frame(sse_base, Head(sse_source))
                            ELSE async_frame(sse_base, Head(sse_source)))
    /\ sse_consumed' = Append(sse_consumed, Head(sse_source))
    /\ sse_source' = Tail(sse_source)
    /\ UNCHANGED <<encoder, sse_pc, sse_base, prompt_messages, response>>
    /\ UNCHANGED <<agent_vars, self_vars, other_vars>>

\* line 50 and 114: the source is exhausted
EncoderDone ==
    /\ sse_pc = "loop"
    /\ sse_source = <<>>
    /\ sse_frames' = sse_frames \o closing_frames(sse_frames)
    /\ sse_pc' = "done"
    /\ UNCHANGED <<encoder, sse_source, sse_consumed, sse_base, prompt_messages, response>>
    /\ UNCHANGED <<agent_vars, self_vars, other_vars>>

\* line 53-84: chat_completion_response is called with the whole source
ChatCompletionResponse ==
    /\ sse_pc = "call"
    /\ \E id \in EnvelopeIds, created \in EnvelopeTimes :
          response' = chat_completion_response(sse_source, ModelName, prompt_messages,
                                               id, created)
    /\ sse_pc' = "returned"
    /\ UNCHANGED <<encoder, sse_source, sse_consumed, sse_base, sse_frames, prompt_messages>>
    /\ UNCHANGED <<agent_vars, self_vars, other_vars>>

EncoderNext ==
    \/ EncoderStart
    \/ EncoderItem
    \/ EncoderDone
    \/ ChatCompletionResponse

SpecSSE == InitSSE /\ [][EncoderNext]_vars

-----------------------------------------------------------------------------
(* Vocabulary of the properties *)

IsPrefix(s, t) == Len(s) <= Len(t) /\ SubSeq(t, 1, Len(s)) = s

RECURSIVE Flatten(_)
Flatten(seqs) == IF seqs = <<>> THEN <<>> ELSE Head(seqs) \o Flatten(Tail(seqs))

Finished == pc = "done"

NonWhitespace(atom) == atom \notin Whitespace

IsStop(item) ==
    /\ item.py = "dict"
    /\ "finish_reason" \in DOMAIN item.v
    /\ item.v.finish_reason = "stop"

IsToolStop(event) ==
    event.type = "content_block_stop" /\ event.content_block.type = "tool_use"

\* the tool-use blocks the provider finalized in finished round r, in stream order
RoundToolUses(r) ==
    LET stops == SelectSeq(round_log[r].events, IsToolStop)
    IN  [i \in 1..Len(stops) |-> stops[i].content_block]

\* the terminal marker (live) or the composite value (collected) has been emitted
TerminalEmitted ==
    \E i \in 1..Len(out) : IsStop(out[i]) \/ (~stream_mode /\ out[i].py = "str")

\* C1: outside simulation, the request is finished exactly when the last
\* provider round produced zero tool requests: a finished round without tool
\* requests is the last provider call and ends the request, a finished request
\* ends on such a round, and nothing terminal is emitted before that.
C1_TerminalOnlyAfterEmptyRound ==
    ~simulate =>
        /\ \A r \in 1..Len(round_log) :
              RoundToolUses(r) = <<>> => (r = Len(requests) /\ Finished)
        /\ Finished =>
              /\ round_log # <<>>
              /\ Len(requests) = Len(round_log)
              /\ RoundToolUses(Len(round_log)) = <<>>
        /\ TerminalEmitted => Finished

C1_Witness ==
    /\ ~simulate
    /\ Finished
    /\ Len(round_log) = 2
    /\ RoundToolUses(1) # <<>>
    /\ TerminalEmitted

CallOf(block) == [tool_name |-> block.name, arguments |-> or_empty_dict(block.input)]

\* the calls the finished rounds ask for, round after round, in stop order
ExpectedCalls ==
    Flatten([r \in 1..Len(round_log) |->
                [i \in 1..Len(RoundToolUses(r)) |-> CallOf(RoundToolUses(r)[i])]])

\* C2: the tool executor is called once per finalized tool-use block, with the
\* block's name and arguments, in the order of the stop events, and a call
\* starts only when every earlier call has returned.
C2_SequentialCallsInStopOrder ==
    LET expected == ExpectedCalls
    IN  /\ IsPrefix(called, expected)
        /\ Len(called) \in {Len(returned), Len(returned) + 1}
        /\ Len(called) = Len(returned) + 1 => pc \in {"calling", "failed"}
        /\ pc \in {"request", "streaming", "done"} =>
              called = expected /\ Len(returned) = Len(called)

C2_Witness ==
    /\ pc = "request"
    /\ Len(round_log) = 1
    /\ Len(RoundToolUses(1)) = 2
    /\ RoundToolUses(1)[1] # RoundToolUses(1)[2]
    /\ Len(returned) = 2


\* the tool results a conversation carries, in order
RECURSIVE ResultsIn(_)
ResultsIn(conv) ==
    IF conv = <<>> THEN <<>>
    ELSE (IF Head(conv).role = "user" /\ Head(conv).content.py = "list"
          THEN Head(conv).content.v ELSE <<>>)
         \o ResultsIn(Tail(conv))

\* the conversation is the caller's messages followed by one assistant/user
\* pair per round in 1..n: the round's final content, then one tool result per
\* tool-use block the round finalized, in order, with the block's id
IsRoundsConversation(conv, n) ==
    LET m == Len(messages)
    IN  /\ Len(conv) = m + 2 * n
        /\ SubSeq(conv, 1, m) = messages
        /\ \A j \in 1..n :
              LET results == conv[m + 2 * j].content
                  uses == RoundToolUses(j)
              IN  /\ conv[m + 2 * j - 1] =
                        [role |-> "assistant", content |-> PyList(round_log[j].content)]
                  /\ conv[m + 2 * j].role = "user"
                  /\ results.py = "list"
                  /\ uses # <<>>
                  /\ Len(results.v) = Len(uses)
                  /\ \A i \in 1..Len(uses) :
                        /\ results.v[i].type = "tool_result"
                        /\ results.v[i].tool_use_id = uses[i].id

\* list_tools raised: the request ended before its locals were set up
ListToolsFailed == failures # <<>> /\ failures[1].kind = "list_tools"

\* C3: the k-th provider call receives the caller's messages followed by
\* exactly k-1 assistant/user pairs, the pairs of rounds 1..k-1, unmodified;
\* between calls the conversation only grows, by the assistant message of the
\* round and then by its one tool-result message.
C3_ConversationAppendOnly ==
    /\ \A k \in 1..Len(requests) :
          /\ IsRoundsConversation(requests[k], k - 1)
          /\ k > 1 => IsPrefix(requests[k - 1], requests[k])
    /\ (pc # "start" /\ ~simulate /\ ~ListToolsFailed) =>
          /\ requests = <<>> => conversation = messages
          /\ requests # <<>> =>
                /\ IsPrefix(requests[Len(requests)], conversation)
                /\ Len(conversation) <= Len(requests[Len(requests)]) + 2
          /\ pc = "request" => IsRoundsConversation(conversation, Len(round_log))

C3_Witness ==
    /\ Len(requests) = 3
    /\ Len(RoundToolUses(1)) = 1
    /\ round_log[1].content # <<>>
    /\ Len(ResultsIn(requests[3])) = 2

\* C4 as stated: every tool result fed back carries exactly the string the
\* tool executor returned for it, whatever the string.
C4_ResultContentIsRawString ==
    \A k \in 1..Len(requests) :
        LET results == ResultsIn(requests[k])
        IN  /\ Len(results) <= Len(returned)
            /\ \A i \in 1..Len(results) : results[i].content = returned[i]

\* C4, amended: a returned string is never dropped and never interrupts the
\* request; the tool result fed back carries the returned string exactly when
\* it is not empty, and the fixed placeholder when it is empty.
C4_ResultContentIsRawStringOrPlaceholder ==
    /\ \A k \in 1..Len(requests) :
          LET results == ResultsIn(requests[k])
          IN  /\ Len(results) <= Len(returned)
              /\ \A i \in 1..Len(results) :
                    results[i].content =
                        IF returned[i] # <<>> THEN returned[i] ELSE NoContentPlaceholder
    /\ pc = "streaming" => Len(ResultsIn(requests[Len(requests)])) = Len(returned)
    /\ Len(ResultsIn(conversation)) # Len(returned) =>
          /\ pc \in {"tools", "calling", "failed"}
          /\ Len(ResultsIn(conversation)) + Len(tool_results) = Len(returned)

C4_Witness ==
    /\ pc = "streaming"
    /\ Len(requests) = 2
    /\ \E i \in 1..Len(returned) : returned[i] = <<>>
    /\ \E i \in 1..Len(returned) : json_loads(returned[i]).ok

\* C5: a live-mode request that has finished, in simulation or not, has
\* yielded exactly one item with finish_reason "stop", as its last item; an
\* unfinished one has yielded none.
C5_LiveEndsWithOneStop ==
    stream_mode =>
        /\ Finished =>
              /\ out # <<>>
              /\ IsStop(out[Len(out)])
              /\ \A i \in 1..(Len(out) - 1) : ~IsStop(out[i])
        /\ ~Finished => \A i \in 1..Len(out) : ~IsStop(out[i])

C5_Witness ==
    /\ stream_mode
    /\ ~simulate
    /\ Finished
    /\ Len(round_log) = 2
    /\ Len(returned) = 2
    /\ IsStop(out[Len(out)])


\* the events of every round so far, finished or not
RoundsEvents ==
    [r \in 1..Len(round_log) |-> round_log[r].events]
    \o (IF Len(requests) > Len(round_log) THEN <<stream_events>> ELSE <<>>)

Fragments(thinking) ==
    Flatten([r \in 1..Len(RoundsEvents) |->
                FragmentsUpTo(RoundsEvents[r], Len(RoundsEvents[r]), thinking)])

IsDelta(item) == item.py = "dict" /\ "delta" \in DOMAIN item.v
HasThinkingKey(item) == IsDelta(item) /\ "thinking" \in DOMAIN item.v.delta
HasContentKey(item) == IsDelta(item) /\ "content" \in DOMAIN item.v.delta

FixedMarkers == {ThoughtsMarker, SectionSeparator, Newline, SimulatedResponse}

\* a delta with the content key only, whose content is no fixed marker
IsTextDelta(item) ==
    /\ IsDelta(item)
    /\ DOMAIN item.v.delta = {"content"}
    /\ item.v.delta.content \notin FixedMarkers

RECURSIVE live_items(_, _)
\* what live mode yields for the events of one round
live_items(types, events) ==
    IF events = <<>> THEN <<>>
    ELSE yield_event(types, Head(events), TRUE)
         \o live_items(block_types_after(types, Head(events)), Tail(events))

RECURSIVE ContentOf(_)
\* the concatenation of the content values of the deltas among items
ContentOf(items) ==
    IF items = <<>> THEN <<>>
    ELSE (IF HasContentKey(Head(items)) THEN Head(items).v.delta.content ELSE <<>>)
         \o ContentOf(Tail(items))

\* round r's final message is the aggregate of its stream
ConsistentRound(r) == round_log[r].content = aggregated(round_log[r].events)

\* round r carried answer text and nothing about thinking
TextOnlyRound(r) ==
    LET events == round_log[r].events
    IN  /\ FragmentsUpTo(events, Len(events), FALSE) # <<>>
        /\ FragmentsUpTo(events, Len(events), TRUE) = <<>>
        /\ \A n \in 1..Len(events) : events[n].content_block.type # "thinking"

\* C8 as stated, for providers whose final message agrees with their stream
\* and for answers without thinking: after a single round without tool use,
\* the collected output equals the concatenation of the content values live
\* mode yields for the same round.
C8_CollectedEqualsLiveConcatenation ==
    (/\ ~simulate
     /\ ~stream_mode
     /\ Finished
     /\ Len(round_log) = 1
     /\ ConsistentRound(1)
     /\ TextOnlyRound(1))
    => out[1].v = ContentOf(live_items([i \in Indices |-> "None"], round_log[1].events)
                            \o yield_final(thinking_parts, answer_parts, TRUE))

\* C8, amended: for such a round the collected output and the concatenation
\* of the live content values hold the same text up to whitespace: live mode
\* adds a newline per closed block, the collected output is trimmed.
C8_CollectedEqualsLiveUpToWhitespace ==
    (/\ ~simulate
     /\ ~stream_mode
     /\ Finished
     /\ Len(round_log) = 1
     /\ ConsistentRound(1)
     /\ TextOnlyRound(1))
    => SelectSeq(out[1].v, NonWhitespace)
          = SelectSeq(ContentOf(live_items([i \in Indices |-> "None"], round_log[1].events)
                                \o yield_final(thinking_parts, answer_parts, TRUE)),
                      NonWhitespace)

C8_Witness ==
    /\ ~simulate
    /\ ~stream_mode
    /\ Finished
    /\ Len(round_log) = 1
    /\ ConsistentRound(1)
    /\ TextOnlyRound(1)
    /\ \E n \in 1..Len(round_log[1].events) :
          round_log[1].events[n].type = "content_block_stop"
    /\ out[1].v = <<"4">>

\* C9 as stated: no delta carries the text of a thinking fragment under content.
C9_ThinkingNeverUnderContent ==
    \A i \in 1..Len(out) : HasThinkingKey(out[i]) => ~HasContentKey(out[i])

\* C9, amended: in live mode every thinking fragment is yielded as one delta
\* that carries its text under the thinking key and the same text under the
\* content key; the deltas without a thinking key carry, besides the fixed
\* markers, exactly the answer fragments.
C9_ThinkingUnderBothKeys ==
    (stream_mode /\ ~simulate) =>
        LET thinking_items == SelectSeq(out, HasThinkingKey)
            text_items == SelectSeq(out, IsTextDelta)
        IN  /\ \A i \in 1..Len(thinking_items) :
                  /\ HasContentKey(thinking_items[i])
                  /\ thinking_items[i].v.delta.content = thinking_items[i].v.delta.thinking
            /\ [i \in 1..Len(thinking_items) |-> thinking_items[i].v.delta.thinking]
                  = Fragments(TRUE)
            /\ [i \in 1..Len(text_items) |-> text_items[i].v.delta.content]
                  = Fragments(FALSE)

C9_Witness ==
    /\ stream_mode
    /\ ~simulate
    /\ Len(Fragments(TRUE)) = 1
    /\ Len(Fragments(FALSE)) = 1
    /\ \E i \in 1..Len(out) : HasThinkingKey(out[i])

Occurs(atom, text) == \E i \in 1..Len(text) : text[i] = atom

\* C10: the composite value of a finished collected-mode request starts, when
\* thinking text was captured, with the Thoughts label, all thinking text, the
\* separator and the Answer label, each label occurs once, and the answer
\* fragments follow the Answer label in order; when no thinking text was
\* captured it holds neither label, only the answer fragments.
C10_CollectedLayout ==
    (~simulate /\ ~stream_mode /\ Finished) =>
        LET composite == out[1].v
            head == <<"**Thoughts:**", "\n", "\n">> \o Flatten(thinking_parts)
                    \o <<"\n", "\n", "---", "\n", "\n", "**Answer:**">>
            rest == SubSeq(composite, Len(head) + 1, Len(composite))
            answer == SelectSeq(Flatten(answer_parts), NonWhitespace)
        IN  /\ Len(out) = 1
            /\ out[1].py = "str"
            /\ IF thinking_parts # <<>>
               THEN /\ IsPrefix(head, composite)
                    /\ ~Occurs("**Thoughts:**", rest)
                    /\ ~Occurs("**Answer:**", rest)
                    /\ SelectSeq(rest, NonWhitespace) = answer
               ELSE /\ ~Occurs("**Thoughts:**", composite)
                    /\ ~Occurs("**Answer:**", composite)
                    /\ SelectSeq(composite, NonWhitespace) = answer

C10_Witness ==
    /\ ~simulate
    /\ ~stream_mode
    /\ Finished
    /\ Len(thinking_parts) = 2
    /\ Len(answer_parts) > 2

C10_WitnessNoThinking ==
    /\ ~simulate
    /\ ~stream_mode
    /\ Finished
    /\ thinking_parts = <<>>
    /\ answer_parts # <<>>

\* C11: a collected-mode request yields nothing before it finishes, whatever
\* the number of rounds and tool calls and whether tool logs are on or off;
\* when it finishes it has yielded exactly one item, a string, which outside
\* simulation is the composite of the captured thinking and answer parts.
C11_CollectedEmitsOneItemAtEnd ==
    ~stream_mode =>
        /\ ~Finished => out = <<>>
        /\ Finished =>
              /\ Len(out) = 1
              /\ out[1].py = "str"
              /\ ~simulate => out[1].v = final_answer(thinking_parts, answer_parts)

C11_Witness ==
    /\ ~stream_mode
    /\ ~simulate
    /\ include_tool_logs
    /\ Finished
    /\ Len(round_log) = 2
    /\ \E i \in 1..Len(returned) : returned[i] # <<>>
    /\ \E n \in 1..Len(round_log[1].events) :
          round_log[1].events[n].type = "content_block_stop"
    /\ Len(out) = 1

C11_WitnessNoLogs ==
    /\ ~stream_mode
    /\ ~simulate
    /\ ~include_tool_logs
    /\ Finished
    /\ Len(round_log) = 2
    /\ Len(out) = 1

\* C12: once a tool-executor call or the provider stream has raised, the
\* request is over as failed: it is the only failure (no retry), and no further
\* tool call, provider round, item or message has come since; the conversation
\* holds no tool-result message of the failing round; neither the terminal
\* marker nor a composite value has been emitted.
C12_FailureAbortsRequest ==
    /\ failures # <<>> =>
          LET f == failures[1]
          IN  /\ pc = "failed"
              /\ Len(failures) = 1
              /\ Len(called) = f.calls
              /\ Len(requests) = f.rounds
              /\ Len(out) = f.items
              /\ Len(conversation) = f.msgs
              /\ ~TerminalEmitted
              /\ Len(returned) = IF f.kind = "call_tool" THEN Len(called) - 1 ELSE Len(called)
              /\ f.kind # "list_tools" =>
                    /\ Len(ResultsIn(conversation)) = Len(ResultsIn(requests[Len(requests)]))
                    /\ Len(round_log) = IF f.kind = "call_tool" THEN f.rounds ELSE f.rounds - 1
                    /\ Len(conversation) = Len(requests[Len(requests)])
                                            + (IF f.kind = "call_tool" THEN 1 ELSE 0)
    /\ pc = "failed" => failures # <<>>

C12_Witness ==
    /\ pc = "failed"
    /\ failures[1].kind = "call_tool"
    /\ Len(tool_requests) = 2
    /\ Len(returned) = 1
    /\ Len(round_log) = 1

C12_WitnessStream ==
    /\ pc = "failed"
    /\ failures[1].kind = "stream"
    /\ Len(requests) = 2
    /\ stream_events # <<>>

\* C13: every provider call opens one session; no session but the last is
\* ever open, and the last is open only while its round's stream is being
\* consumed: when a tool call starts or runs, when the next round is about to
\* open its session, and when the request has returned or failed, every
\* session has been released.
C13_SessionsReleased ==
    /\ Len(sessions) = Len(requests)
    /\ \A i \in 1..Len(sessions) :
          sessions[i] = "open" => (i = Len(sessions) /\ pc = "streaming")
    /\ pc = "streaming" => (sessions # <<>> /\ sessions[Len(sessions)] = "open")
    /\ session_open = (pc = "streaming")

C13_Witness ==
    /\ pc = "calling"
    /\ Len(sessions) = 2
    /\ sessions = <<"released", "released">>
    /\ round_log[1].events # <<>>
    /\ round_log[2].events # <<>>

C13_WitnessFailure ==
    /\ pc = "failed"
    /\ failures[1].kind = "stream"
    /\ sessions = <<"released">>
    /\ stream_events = <<>>

\* the finished rounds in which the provider finalized a tool-use block
ToolRounds == { r \in 1..Len(round_log) : RoundToolUses(r) # <<>> }

\* C14: a request in which no collaborator call ever fails eventually
\* finishes (the provider's streams are finite, so a round without tool
\* requests comes), and a request that finished outside simulation made
\* exactly one provider call per round with tool requests, plus one.
C14_FinishesAfterToolRoundsPlusOne ==
    /\ [](pc # "failed") => <>Finished
    /\ []((Finished /\ ~simulate) => Len(requests) = Cardinality(ToolRounds) + 1)

C14_Witness ==
    /\ Finished
    /\ ~simulate
    /\ Cardinality(ToolRounds) = 2
    /\ Len(requests) = 3

\* list_tools returned no tool
ZeroTools == pc # "start" /\ ~simulate /\ ~ListToolsFailed /\ tools = <<>>

IsToolCallDelta(item) == IsDelta(item) /\ "tool_calls" \in DOMAIN item.v.delta

\* the descriptors yielded so far, in order
Descriptors ==
    LET items == SelectSeq(out, IsToolCallDelta)
    IN  Flatten([i \in 1..Len(items) |-> items[i].v.delta.tool_calls])

\* the tool-use blocks finalized so far, in every round, in stream order
FinalizedToolUses ==
    LET stops == SelectSeq(Flatten(RoundsEvents), IsToolStop)
    IN  [i \in 1..Len(stops) |-> stops[i].content_block]

\* descriptor d is the descriptor of block: its id, type "function", its name,
\* and an arguments string that decodes to arguments
DescribesBlock(d, block, arguments) ==
    /\ d.id = block.id
    /\ d.type = "function"
    /\ d.function.name = block.name
    /\ LET decoded == json_loads(d.function.arguments)
       IN  decoded.ok /\ decoded.value = arguments

\* C16 as stated: in live mode there is exactly one descriptor per finalized
\* tool-use block, in order, and its arguments string decodes to the block's
\* input.
C16_DescriptorDecodesToInput ==
    (stream_mode /\ ~simulate) =>
        LET descriptors == Descriptors
            blocks == FinalizedToolUses
        IN  /\ Len(descriptors) = Len(blocks)
            /\ \A i \in 1..Len(descriptors) :
                  DescribesBlock(descriptors[i], blocks[i], blocks[i].input)

\* C16, amended: in live mode there is exactly one descriptor per finalized
\* tool-use block, in order, each in a delta of its own, and its arguments
\* string decodes to the block's input, or to the empty object when the
\* block's input is None or empty.
C16_DescriptorDecodesToInputOrEmpty ==
    (stream_mode /\ ~simulate) =>
        LET descriptors == Descriptors
            blocks == FinalizedToolUses
        IN  /\ Len(descriptors) = Len(blocks)
            /\ Len(SelectSeq(out, IsToolCallDelta)) = Len(descriptors)
            /\ \A i \in 1..Len(descriptors) :
                  DescribesBlock(descriptors[i], blocks[i],
                                 IF blocks[i].input = PyNone
                                 THEN PyDict(EmptyDict)
                                 ELSE blocks[i].input)

C16_Witness ==
    /\ stream_mode
    /\ ~simulate
    /\ Len(Descriptors) = 2
    /\ Descriptors[1].function.name = <<"echo">>
    /\ json_loads(Descriptors[1].function.arguments).value = PyDict([x \in {"x"} |-> 1])
    /\ Descriptors[2].id = <<"tool-2">>

\* the request was one round whose final message is a single text block
SingleTextBlockRound ==
    /\ ~simulate
    /\ Finished
    /\ Len(messages) = 1
    /\ messages[1].role = "user"
    /\ Len(round_log) = 1
    /\ Len(round_log[1].content) = 1
    /\ round_log[1].content[1].type = "text"

\* C18 as stated: after such a round the collected output is exactly the
\* block's text.
C18_CollectedIsBlockText ==
    (SingleTextBlockRound /\ ~stream_mode) =>
        /\ out = <<PyStr(round_log[1].content[1].text)>>
        /\ ask(out) = round_log[1].content[1].text

\* C18, amended: after such a round the collected output is exactly the
\* block's text without its leading and trailing whitespace, from ask_stream
\* and from ask: the text "4" gives exactly "4".
C18_CollectedIsStrippedBlockText ==
    (SingleTextBlockRound /\ ~stream_mode) =>
        /\ out = <<PyStr(strip(round_log[1].content[1].text))>>
        /\ ask(out) = strip(round_log[1].content[1].text)
        /\ round_log[1].content[1].text = <<"4">> => ask(out) = <<"4">>

C18_Witness ==
    /\ SingleTextBlockRound
    /\ ~stream_mode
    /\ round_log[1].content[1].text = <<"4">>
    /\ out = <<PyStr(<<"4">>)>>

C18_WitnessStripped ==
    /\ SingleTextBlockRound
    /\ ~stream_mode
    /\ round_log[1].content[1].text = <<"4", "\n">>
    /\ out = <<PyStr(<<"4">>)>>


IsDone(frame) == frame.body.kind = "literal" /\ frame.body.payload.text = "[DONE]"

\* C6: for every source, the empty one included, an encoder that has run to
\* its end has yielded exactly one data: [DONE] frame, as its last frame; an
\* encoder that has not has yielded none.
C6_OneDoneFrameLast ==
    /\ sse_pc = "done" =>
          /\ sse_frames # <<>>
          /\ sse_frames[Len(sse_frames)] = DoneFrame
          /\ \A i \in 1..(Len(sse_frames) - 1) : ~IsDone(sse_frames[i])
    /\ sse_pc # "done" => \A i \in 1..Len(sse_frames) : ~IsDone(sse_frames[i])

C6_Witness ==
    /\ sse_pc = "done"
    /\ Len(sse_frames) = 3
    /\ \E i \in 1..2 :
          /\ sse_consumed[i].py = "str"
          /\ sse_consumed[i].v = <<"data: [DONE]", "\n", "\n">>
    /\ \E i \in 1..2 :
          /\ sse_consumed[i].py = "dict"
          /\ "choices" \in DOMAIN sse_consumed[i].v

C6_WitnessEmpty ==
    /\ sse_pc = "done"
    /\ sse_consumed = <<>>
    /\ sse_frames = <<DoneFrame>>

EnvelopeKeys == {"id", "object", "created", "model"}

\* C7: the frame the streaming encoder yields for a dict item with a choices
\* key carries every key of the item with the item's value, choices among
\* them, and besides these only the envelope keys the item does not have,
\* with the envelope's values.
C7_PreShapedForwarded ==
    encoder = "async" =>
        \A i \in 1..Len(sse_consumed) :
            LET item == sse_consumed[i]
                payload == sse_frames[i].body.payload
            IN  (item.py = "dict" /\ "choices" \in DOMAIN item.v) =>
                    /\ sse_frames[i].body.kind = "json_object"
                    /\ DOMAIN payload = DOMAIN item.v \cup EnvelopeKeys
                    /\ \A k \in DOMAIN item.v : payload[k] = item.v[k]
                    /\ \A k \in EnvelopeKeys \ DOMAIN item.v : payload[k] = sse_base[k]

C7_Witness ==
    /\ encoder = "async"
    /\ sse_pc = "done"
    /\ \E i \in 1..Len(sse_consumed) :
          /\ sse_consumed[i].py = "dict"
          /\ "choices" \in DOMAIN sse_consumed[i].v
          /\ "id" \in DOMAIN sse_consumed[i].v
          /\ sse_frames[i].body.payload.id = "upstream-id"
          /\ sse_frames[i].body.payload.created = sse_base.created


\* the inputs that are not strings, in order
NonStrings(items) == SelectSeq(items, LAMBDA item : item.py # "str")

\* C19: chat_completion_response returns one object that has the envelope
\* (object "chat.completion", the given model), usage with its three counters
\* null, and one choice with index 0, finish_reason "stop", role "assistant"
\* and the given prompt texts; the content is the concatenation of the inputs
\* when none is a non-string (the empty string for no input), the input itself
\* when the input is one single non-string, and the list of the inputs, in
\* order, otherwise.
C19_ResponseShape ==
    sse_pc = "returned" =>
        LET choice == response.choices[1]
        IN  /\ DOMAIN response = EnvelopeKeys \cup {"usage", "choices"}
            /\ response.object = "chat.completion"
            /\ response.model = ModelName
            /\ DOMAIN response.usage = {"prompt_tokens", "completion_tokens", "total_tokens"}
            /\ \A k \in DOMAIN response.usage : response.usage[k] = "null"
            /\ Len(response.choices) = 1
            /\ choice.index = 0
            /\ choice.finish_reason = "stop"
            /\ choice.message.role = "assistant"
            /\ choice.prompt = prompt_messages
            /\ choice.message.content =
                  IF NonStrings(sse_source) = <<>>
                  THEN PyStr(Flatten([i \in 1..Len(sse_source) |-> sse_source[i].v]))
                  ELSE IF Len(sse_source) = 1 THEN sse_source[1]
                  ELSE PyList(sse_source)

C19_Witness ==
    /\ sse_pc = "returned"
    /\ Len(sse_source) = 1
    /\ sse_source[1].py = "dict"
    /\ response.choices[1].message.content = sse_source[1]
    /\ Len(prompt_messages) = 2

C19_WitnessStrings ==
    /\ sse_pc = "returned"
    /\ Len(sse_source) = 2
    /\ response.choices[1].message.content = PyStr(<<"hi", "hi">>)

C19_WitnessList ==
    /\ sse_pc = "returned"
    /\ Len(NonStrings(sse_source)) = 1
    /\ Len(sse_source) = 2
    /\ response.choices[1].message.content = PyList(sse_source)

\* a credential is available: the api_key argument or ANTHROPIC_API_KEY is a
\* non-empty string
CredentialAvailable ==
    py_truthy(init_args.api_key) \/ py_truthy(environ.ANTHROPIC_API_KEY)

\* requests to a simulating agent: no provider session, no tool-executor
\* call, the canned items only
SimulationIsCanned ==
    (simulate /\ pc \notin {"new", "raised"}) =>
        /\ client = "None"
        /\ mcp_client = "None"
        /\ pc \in {"start", "done"}
        /\ sessions = <<>> /\ requests = <<>> /\ called = <<>> /\ tools = <<>>
        /\ out = IF pc = "start" THEN <<>>
                 ELSE IF stream_mode THEN <<ContentDelta(SimulatedResponse), StopItem>>
                 ELSE <<PyStr(SimulatedResponse)>>

\* C20: the constructor raises exactly when no credential is available and
\* simulation is off; a simulating agent holds no provider client and no tool
\* client, and a request to it opens no provider session, makes no
\* tool-executor call and yields the canned content delta and the terminal
\* marker in live mode, the canned string in collected mode.
C20_ConstructionFailsIffNoCredential ==
    /\ pc # "new" =>
          ((pc = "raised") <=> (~CredentialAvailable /\ ~init_args.simulate))
    /\ SimulationIsCanned

\* C20, amended: the constructor raises exactly when no model name is
\* available (the model argument is None or empty and DEFAULT_MODEL is not
\* set), or simulation is off and no credential is available or the mcp
\* package is not installed; the rest as stated.
C20_ConstructionFailsIffMisconfigured ==
    /\ pc # "new" =>
          ((pc = "raised") <=>
              \/ ~(py_truthy(init_args.model) \/ environ.DEFAULT_MODEL.py = "str")
              \/ (~init_args.simulate /\ (~CredentialAvailable \/ ~environ.mcp_installed)))
    /\ (pc = "raised" /\ raised = "ValueError") =>
          (~CredentialAvailable /\ ~init_args.simulate)
    /\ SimulationIsCanned

C20_Witness ==
    /\ simulate
    /\ Finished
    /\ ~CredentialAvailable
    /\ stream_mode
    /\ out = <<ContentDelta(SimulatedResponse), StopItem>>

C20_WitnessNoCredential ==
    /\ pc = "raised"
    /\ raised = "ValueError"
    /\ api_key = PyStr(<<>>)

C20_WitnessNoModel ==
    /\ pc = "raised"
    /\ raised = "AttributeError"
    /\ init_args.simulate
    /\ CredentialAvailable

-----------------------------------------------------------------------------
(* An invocation against what it has itself been sent *)

RECURSIVE CallsBefore(_)
\* the number of tool-use blocks finalized in the rounds before round r
CallsBefore(r) ==
    IF r <= 1 THEN 0 ELSE CallsBefore(r - 1) + Len(RoundToolUses(r - 1))

\* the stream of the round that is open, or was open when the stream failed
OpenRoundEvents == IF Len(requests) > Len(round_log) THEN stream_events ELSE <<>>

\* thinking, from the invocation's own streams and final messages
AloneThinkingParts ==
    Flatten([r \in 1..Len(round_log) |->
                FragmentsUpTo(round_log[r].events, Len(round_log[r].events), TRUE)
                \o texts_of(round_log[r].content, TRUE)])
    \o FragmentsUpTo(OpenRoundEvents, Len(OpenRoundEvents), TRUE)

\* what the tool loop adds to the answer for the g-th call, a call for block
AloneToolLogs(block, g) ==
    IF ~include_tool_logs THEN <<>>
    ELSE (IF g <= Len(called)
          THEN <<CallingLog(block.name, json_dumps_indent2(or_empty_dict(block.input)))>>
          ELSE <<>>)
         \o (IF g <= Len(returned) THEN <<ResultLog(block.name, returned[g])>> ELSE <<>>)

\* the answer, from the invocation's own final messages and tool outputs
AloneAnswerParts ==
    Flatten([r \in 1..Len(round_log) |->
                texts_of(round_log[r].content, FALSE)
                \o Flatten([i \in 1..Len(RoundToolUses(r)) |->
                               AloneToolLogs(RoundToolUses(r)[i], CallsBefore(r) + i)])])

\* the results message of round r, once its last call has returned
AloneResultsMessage(r) ==
    LET uses == RoundToolUses(r)
        base == CallsBefore(r)
    IN  IF uses # <<>> /\ base + Len(uses) <= Len(returned)
        THEN <<tool_results_message(
                  [i \in 1..Len(uses) |->
                      ToolResultBlockParam(uses[i].id, tool_result_content(returned[base + i]))])>>
        ELSE <<>>

\* the conversation, from the invocation's own messages, final messages and
\* tool outputs
AloneConversation ==
    messages
    \o Flatten([r \in 1..Len(round_log) |->
                   <<assistant_message(round_log[r].content)>> \o AloneResultsMessage(r)])

\* what live mode yields in the tool loop for the g-th call, a call for block
AloneToolItems(block, g) ==
    IF ~include_tool_logs THEN <<>>
    ELSE (IF g <= Len(called)
          THEN <<PyStr(CallingLog(block.name, json_dumps(or_empty_dict(block.input))))>>
          ELSE <<>>)
         \o (IF g <= Len(returned) /\ returned[g] # <<>>
             THEN <<ToolResultDelta(block, rendered_output(returned[g]))>>
             ELSE <<>>)

\* the items, from the invocation's own streams, tool outputs and accumulators
AloneOut ==
    (IF stream_mode
     THEN Flatten([r \in 1..Len(round_log) |->
                     live_items([i \in Indices |-> "None"], round_log[r].events)
                     \o Flatten([i \in 1..Len(RoundToolUses(r)) |->
                                    AloneToolItems(RoundToolUses(r)[i], CallsBefore(r) + i)])])
          \o live_items([i \in Indices |-> "None"], OpenRoundEvents)
     ELSE <<>>)
    \o (IF Finished
        THEN yield_final(AloneThinkingParts, AloneAnswerParts, stream_mode)
        ELSE <<>>)

\* the conversations the provider was sent, round after round
AloneRequests ==
    [k \in 1..Len(requests) |->
        messages
        \o Flatten([r \in 1..(k - 1) |->
                       <<assistant_message(round_log[r].content)>> \o AloneResultsMessage(r)])]

\* the invocation that runs is past line 101 and has its locals
HasLocals == ~simulate /\ pc # "start" /\ ~ListToolsFailed

\* C17: with a second invocation on the same agent resumed at any await or
\* yield of the first, and the first at any of the second, the conversation,
\* the thinking and answer accumulators, the provider calls, the tool calls
\* and the emitted items of an invocation are what its own arguments, its own
\* streams and final messages and its own tool outputs make them when it runs
\* alone: nothing the other invocation wrote is in them.
C17_InvocationsDoNotInterfere ==
    /\ HasLocals =>
          LET thinking == AloneThinkingParts
              answer == AloneAnswerParts
          IN  /\ conversation = AloneConversation
              /\ thinking_parts = thinking
              /\ answer_parts = answer
              /\ requests = AloneRequests
              /\ IsPrefix(called, ExpectedCalls)
              /\ out = AloneOut
    /\ simulate =>
          /\ requests = <<>> /\ called = <<>>
          /\ Finished => out = (IF stream_mode
                                THEN <<ContentDelta(SimulatedResponse), StopItem>>
                                ELSE <<PyStr(SimulatedResponse)>>)

\* the first invocation finished after a tool round while the second had
\* finished in between, both with an answer
C17_Witness ==
    /\ running = 1
    /\ Finished
    /\ ~simulate
    /\ Len(round_log) = 2
    /\ called # <<>>
    /\ answer_parts # <<>>
    /\ other[1].pc = "done"
    /\ other[1].answer_parts # <<>>
    /\ other[1].answer_parts # answer_parts

\* the second invocation resumed and finished while the first was suspended
\* in its tool loop
C17_WitnessSecond ==
    /\ running = 2
    /\ Finished
    /\ conversation # <<>>
    /\ other[1].pc = "calling"
    /\ other[1].answer_parts # <<>>

-----------------------------------------------------------------------------
(* The tool log of the composite output *)

\* the atoms the final messages' text blocks are made of, whitespace aside
AnswerAtoms == {"4", "b"}

LogHeads == {"Calling ", "Result from "}

\* the composite after its thinking section, which ends with the answer label
AnswerSection(composite) ==
    LET labels == { i \in 1..Len(composite) : composite[i] = "**Answer:**" }
    IN  IF labels = {} THEN composite
        ELSE SubSeq(composite, (CHOOSE i \in labels : \A j \in labels : i <= j) + 1,
                    Len(composite))

\* the log entries and the answer text of a composite, in its order: each
\* entry's head with the tool name it quotes, and each atom of answer text
LogTrace(composite) ==
    LET kept(i) ==
            \/ composite[i] \in LogHeads \cup AnswerAtoms
            \/ i >= 3 /\ composite[i - 2] \in LogHeads
        places == SelectSeq([i \in 1..Len(composite) |-> i], kept)
    IN  [j \in 1..Len(places) |-> composite[places[j]]]

\* the answer text of finished round r, whitespace aside
RoundAnswerAtoms(r) ==
    SelectSeq(join(<<>>, texts_of(round_log[r].content, FALSE)),
              LAMBDA atom : atom \in AnswerAtoms)

\* a calling entry then a result entry for each call round r asked for, in
\* the order the executor was called
RoundLogPairs(r) ==
    Flatten([i \in 1..Len(RoundToolUses(r)) |->
                LET name == called[CallsBefore(r) + i].tool_name
                IN  <<"Calling ">> \o name \o <<"Result from ">> \o name])

\* C21: in collected mode with tool logs, the composite output holds a
\* "Calling" entry followed by a "Result from" entry for every tool call, in
\* the order of the calls, after the answer text of the round that asked for
\* them and before the answer text of any later round.
C21_CollectedHoldsToolLogPairs ==
    (Finished /\ ~simulate /\ ~stream_mode /\ include_tool_logs) =>
        /\ Len(out) = 1
        /\ out[1].py = "str"
        /\ LogTrace(AnswerSection(out[1].v)) =
              Flatten([r \in 1..Len(round_log) |->
                          RoundAnswerAtoms(r) \o RoundLogPairs(r)])

\* two rounds asked for a tool, each after answer text, and a third round
\* answered
C21_Witness ==
    /\ Finished /\ ~simulate /\ ~stream_mode /\ include_tool_logs
    /\ Len(round_log) = 3
    /\ Len(called) = 2
    /\ RoundAnswerAtoms(1) # <<>>
    /\ RoundAnswerAtoms(3) # <<>>

\* two calls of one round, with no answer text before them
C21_WitnessTwoCalls ==
    /\ Finished /\ ~simulate /\ ~stream_mode /\ include_tool_logs
    /\ Len(round_log) = 2
    /\ Len(called) = 2
    /\ called[1] # called[2]
    /\ RoundAnswerAtoms(1) = <<>>

-----------------------------------------------------------------------------
(* The frames of the streaming encoder *)

IsPreShaped(item) == item.py = "dict" /\ "choices" \in DOMAIN item.v

SharedEnvelopeKeys == {"id", "created", "model"}

\* one data frame per consumed item, in the order of the source, and the
\* closing frame after them
OneFramePerItem ==
    /\ Len(sse_frames) = Len(sse_consumed) + (IF sse_pc = "done" THEN 1 ELSE 0)
    /\ \A i \in 1..Len(sse_consumed) : sse_frames[i].body.kind = "json_object"
    /\ sse_pc = "done" => sse_frames[Len(sse_frames)] = DoneFrame

\* the frame of an item without choices wraps it in one choice
WrappedAsClaimed(i) ==
    LET item == sse_consumed[i]
        choices == sse_frames[i].body.payload.choices
    IN  ~IsPreShaped(item) =>
            /\ Len(choices) = 1
            /\ choices[1].index = 0
            /\ item.py = "str" =>
                  /\ choices[1].delta = [content |-> item]
                  /\ choices[1].finish_reason = "null"
            /\ item.py = "dict" =>
                  /\ choices[1].delta =
                        (IF "delta" \in DOMAIN item.v /\ item.v.delta # PyNone
                         THEN item.v.delta ELSE EmptyDict)
                  /\ choices[1].finish_reason =
                        (IF "finish_reason" \in DOMAIN item.v
                         THEN item.v.finish_reason ELSE "null")

\* C22 as stated: the streaming encoder yields one data frame per item, in
\* order, then the [DONE] frame; every data frame carries the id, created and
\* model of the one envelope; an item without choices is wrapped under
\* choices[0].delta with its finish_reason or null.
C22_OneFramePerItemSharedEnvelope ==
    encoder = "async" =>
        /\ OneFramePerItem
        /\ \A i \in 1..Len(sse_consumed) :
              /\ \A k \in SharedEnvelopeKeys : sse_frames[i].body.payload[k] = sse_base[k]
              /\ WrappedAsClaimed(i)

\* C22, amended: as stated, but a data frame carries the envelope's id,
\* created and model except for those of the three keys that an item with
\* choices has itself, which keep the item's value.
C22_OneFramePerItemEnvelopeUnlessOwnKey ==
    encoder = "async" =>
        /\ OneFramePerItem
        /\ \A i \in 1..Len(sse_consumed) :
              /\ \A k \in SharedEnvelopeKeys :
                    sse_frames[i].body.payload[k] =
                        (IF IsPreShaped(sse_consumed[i]) /\ k \in DOMAIN sse_consumed[i].v
                         THEN sse_consumed[i].v[k] ELSE sse_base[k])
              /\ WrappedAsClaimed(i)

\* a stop item and an item whose delta is None were wrapped, and the source
\* is exhausted
C22_Witness ==
    /\ encoder = "async"
    /\ sse_pc = "done"
    /\ Len(sse_frames) = 3
    /\ sse_consumed[1] = PyDict([delta |-> PyNone])
    /\ sse_consumed[2] = StopItem
    /\ sse_frames[2].body.payload.choices[1].finish_reason = "stop"
    /\ sse_frames[1].body.payload.id = sse_frames[2].body.payload.id

\* a string and an item with choices and its own id
C22_WitnessOwnId ==
    /\ encoder = "async"
    /\ sse_pc = "done"
    /\ sse_consumed[1].py = "str"
    /\ IsPreShaped(sse_consumed[2])
    /\ "id" \in DOMAIN sse_consumed[2].v
    /\ sse_frames[1].body.payload.id # sse_frames[2].body.payload.id

-----------------------------------------------------------------------------
(* The order of the items of a round with tool requests *)

IsCallingLogItem(item) ==
    item.py = "str" /\ Len(item.v) >= 5 /\ item.v[3] = "Calling "

IsToolResultItem(item) ==
    IsDelta(item) /\ "role" \in DOMAIN item.v.delta /\ item.v.delta.role = "tool"

\* the tool-use blocks of the round whose tool loop runs
LoopToolUses == RoundToolUses(Len(round_log))

\* the descriptors of the round whose tool loop runs have all been yielded,
\* in the order of their stop events
LoopDescriptorsYielded ==
    LET base == CallsBefore(Len(round_log))
    IN  /\ Len(Descriptors) = base + Len(LoopToolUses)
        /\ \A j \in 1..Len(LoopToolUses) : Descriptors[base + j].id = LoopToolUses[j].id

\* a step that starts a tool-executor call
CallStarts == called' # called

\* a step in which a tool-executor call returns
CallReturns == returned' # returned

\* a step that opens a provider round
RoundOpens == requests' # requests

OrderedAtCallStart ==
    LET i == Len(called') - CallsBefore(Len(round_log))
    IN  /\ i \in 1..Len(LoopToolUses)
        /\ LoopDescriptorsYielded
        /\ IF include_tool_logs
           THEN /\ Len(out') = Len(out) + 1
                /\ SubSeq(out', 1, Len(out)) = out
                /\ IsCallingLogItem(out'[Len(out')])
                /\ <<out'[Len(out')].v[5]>> = LoopToolUses[i].name
           ELSE out' = out
        /\ (i > 1 /\ include_tool_logs /\ returned[Len(returned)] # <<>>) =>
              /\ IsToolResultItem(out[Len(out)])
              /\ out[Len(out)].v.delta.tool_call_id = LoopToolUses[i - 1].id

OrderedAtCallReturn ==
    LET i == Len(returned') - CallsBefore(Len(round_log))
    IN  /\ i \in 1..Len(LoopToolUses)
        /\ Len(called) = Len(returned')
        /\ IF include_tool_logs /\ returned'[Len(returned')] # <<>>
           THEN /\ Len(out') = Len(out) + 1
                /\ SubSeq(out', 1, Len(out)) = out
                /\ IsToolResultItem(out'[Len(out')])
                /\ out'[Len(out')].v.delta.tool_call_id = LoopToolUses[i].id
           ELSE out' = out

OrderedAtRoundOpen ==
    /\ out' = out
    /\ Len(called) = Len(returned)
    /\ Len(called) = CallsBefore(Len(round_log) + 1)

\* any other item is yielded by a stream event or at the end of the request,
\* when no call is under way and none of the round remains to be made
OrderedOtherwise ==
    out' # out =>
        /\ pc = "streaming"
        /\ Len(called) = Len(returned)
        /\ Len(called) = CallsBefore(Len(round_log) + 1)

\* C23: in live mode, the descriptors of a round's tool requests are all
\* yielded before the round's first tool-executor call starts; the calling
\* log of a request, when there is one, is yielded before its call, and its
\* tool-result annotation (role "tool", tool_call_id of the request), when
\* there is one, after its call returned and before the next request's call;
\* all of them come before any item of the next round.
C23_ToolRoundItemsOrdered ==
    [][(stream_mode /\ ~simulate) =>
          IF CallStarts THEN OrderedAtCallStart
          ELSE IF CallReturns THEN OrderedAtCallReturn
          ELSE IF RoundOpens THEN OrderedAtRoundOpen
          ELSE OrderedOtherwise]_vars

\* after a round with one request, logged and annotated, the next round has
\* yielded an item
C23_Witness ==
    /\ stream_mode /\ ~simulate /\ include_tool_logs
    /\ Len(round_log) = 1
    /\ Len(called) = 1
    /\ returned = << <<"ok">> >>
    /\ pc = "streaming"
    /\ IsToolResultItem(out[Len(out) - 1])
    /\ ~IsToolResultItem(out[Len(out)])
    /\ stream_events # <<>>

\* the second call of a round with two requests is under way, after the
\* annotation of the first
C23_WitnessTwoCalls ==
    /\ stream_mode /\ ~simulate /\ include_tool_logs
    /\ pc = "calling"
    /\ Len(called) = 2
    /\ Len(LoopToolUses) = 2
    /\ IsCallingLogItem(out[Len(out)])
    /\ IsToolResultItem(out[Len(out) - 1])

-----------------------------------------------------------------------------
(* The request and its consumer *)

\* the consumer holds every item it asked for
ConsumerServed == asked <= Len(out)

\* nothing is asked of the collaborators in this step
NoCollaboratorStep ==
    /\ events_seen' = events_seen
    /\ stream_events' = stream_events
    /\ called' = called
    /\ returned' = returned
    /\ requests' = requests
    /\ sessions' = sessions

\* a round's session is left because its stream ended or raised
RoundLeftByProvider ==
    (session_open /\ ~session_open') =>
        \/ Len(round_log') = Len(round_log) + 1
        \/ /\ Len(failures') = Len(failures) + 1
           /\ failures'[Len(failures')].kind = "stream"

\* C24: while the consumer of a live request holds the items it asked for
\* and asks for no further one, no provider event is consumed, no tool
\* executor call is made and no provider round is opened; and a round is
\* never left otherwise than by its stream ending or raising.
C24_AdvancesOnlyWhenAsked ==
    [][/\ (ConsumerServed /\ asked' = asked) => NoCollaboratorStep
       /\ RoundLeftByProvider]_vars

\* the consumer holds the calling log as the last item it asked for: the
\* call has not been made
C24_Witness ==
    /\ pc = "logged"
    /\ asked = Len(out)
    /\ IsCallingLogItem(out[Len(out)])
    /\ called = <<>>
    /\ Len(requests) = 1

\* the consumer holds an item of an open stream
C24_WitnessStreaming ==
    /\ pc = "streaming"
    /\ session_open
    /\ asked = Len(out)
    /\ out # <<>>
    /\ stream_events # <<>>

-----------------------------------------------------------------------------
(* Tool uses and tool results in the conversations the provider is sent *)

\* the ids of the tool-use blocks of a message content
ToolUseIds(content) ==
    { content[i].id : i \in { j \in 1..Len(content) : content[j].type = "tool_use" } }

\* the ids the tool results of a message content answer
ToolResultIds(content) ==
    { content[i].tool_use_id : i \in { j \in 1..Len(content) : content[j].type = "tool_result" } }

\* the positions of the assistant messages of a conversation
AssistantPositions(sent) == { p \in 1..Len(sent) : sent[p].role = "assistant" }

\* the assistant message at position p of a sent conversation is followed by
\* a user message whose tool results answer its tool-use blocks, id for id
AnsweredAt(sent, p) ==
    /\ p < Len(sent)
    /\ sent[p + 1].role = "user"
    /\ sent[p + 1].content.py = "list"
    /\ ToolResultIds(sent[p + 1].content.v) = ToolUseIds(sent[p].content.v)

\* the final message of round r holds the tool-use blocks its stream finalized
FinalMessageAgrees(r) ==
    ToolUseIds(round_log[r].content)
        = { RoundToolUses(r)[i].id : i \in 1..Len(RoundToolUses(r)) }

\* C25 as stated: in every conversation sent to the provider, the tool-use
\* blocks of an assistant message and the tool results of the user message
\* that follows it have the same ids, whatever the stream and the final
\* message of the round have to do with each other.
C25_ToolUsesAnswered ==
    \A k \in 1..Len(requests) :
        \A p \in AssistantPositions(requests[k]) : AnsweredAt(requests[k], p)

\* C25, amended: the same, for the assistant messages of rounds whose final
\* message holds the tool-use blocks that the round's stop events finalized
\* (the n-th assistant message of a conversation is round n's final message).
C25_ToolUsesAnsweredWhenMessageAgrees ==
    \A k \in 1..Len(requests) :
        LET sent == requests[k]
            positions == AssistantPositions(sent)
        IN  \A p \in positions :
                FinalMessageAgrees(Cardinality({ q \in positions : q <= p }))
                    => AnsweredAt(sent, p)

\* a conversation was sent after a round whose final message agrees with its
\* stream on two tool-use blocks
C25_Witness ==
    /\ Len(requests) = 2
    /\ FinalMessageAgrees(1)
    /\ Len(RoundToolUses(1)) = 2
    /\ Cardinality(ToolUseIds(round_log[1].content)) = 2
    /\ AnsweredAt(requests[2], 2)

\* a conversation was sent after a round whose final message names another
\* tool-use block than its stream
C25_WitnessDisagree ==
    /\ Len(requests) = 2
    /\ ~FinalMessageAgrees(1)
    /\ ~AnsweredAt(requests[2], 2)

-----------------------------------------------------------------------------
(* The thinking section of the composite output *)

\* the text between the thoughts label and the separator of a composite
ThinkingSection(composite) ==
    LET seps == { i \in 1..Len(composite) : composite[i] = "---" }
    IN  IF Len(composite) >= 3 /\ composite[1] = "**Thoughts:**" /\ seps # {}
        THEN SubSeq(composite, 4, (CHOOSE i \in seps : \A j \in seps : i <= j) - 3)
        ELSE <<>>

\* the thinking text the stream of round r carried
StreamedThinking(r) ==
    join(<<>>, FragmentsUpTo(round_log[r].events, Len(round_log[r].events), TRUE))

\* the thinking text of the final message of round r
FinalThinking(r) == join(<<>>, texts_of(round_log[r].content, TRUE))

\* the thinking text of round r, once: a final message that holds the
\* streamed text again adds nothing to it
RoundThinkingOnce(r) ==
    IF StreamedThinking(r) = FinalThinking(r)
    THEN StreamedThinking(r)
    ELSE StreamedThinking(r) \o FinalThinking(r)

\* C26: in collected mode the thinking section of the composite output holds
\* the thinking text of each round once: the text that was streamed is not
\* there again because the final message of the round holds the same block.
C26_ThinkingTextOnce ==
    (Finished /\ ~simulate /\ ~stream_mode) =>
        ThinkingSection(out[1].v) =
            Flatten([r \in 1..Len(round_log) |-> RoundThinkingOnce(r)])

\* what the code does: the streamed text of a round, then the text of the
\* thinking blocks of its final message, the same or not
C26_ThinkingIsStreamedThenFinal ==
    (Finished /\ ~simulate /\ ~stream_mode) =>
        ThinkingSection(out[1].v) =
            Flatten([r \in 1..Len(round_log) |-> StreamedThinking(r) \o FinalThinking(r)])

\* a round streamed a thinking text and its final message holds it too
C26_Witness ==
    /\ Finished /\ ~simulate /\ ~stream_mode
    /\ Len(round_log) = 1
    /\ StreamedThinking(1) = <<"t">>
    /\ FinalThinking(1) = <<"t">>
    /\ ThinkingSection(out[1].v) = <<"t", "t">>

-----------------------------------------------------------------------------
(* The collaborators' view of a request, in two output modes *)

\* the second run can take the step in which its collaborators do what the
\* first run's did
CanCatchUp ==
    ENABLED (/\ ~InSync
             /\ \/ ListTools \/ ListToolsFail \/ OpenStream \/ StreamEvent
                \/ StreamEndFinal \/ StreamEndTools \/ StreamFail
                \/ ToolCallStart \/ ToolCallReturn \/ ToolCallFail
             /\ InSync')

\* C27: when the provider and the tool executor behave the same, a request
\* makes the same provider calls with the same conversations and the same
\* tool-executor calls with the same arguments in whatever output mode it
\* runs, live or collected, with or without tool logs; and in whatever mode
\* it runs it can go where the collaborators take it.
C27_SameCallsInEveryMode ==
    /\ InSync =>
          /\ requests = other[1].requests
          /\ called = other[1].called
          /\ conversation = other[1].conversation
    /\ (running = 2 /\ ~InSync) => CanCatchUp

\* a collected run without tool logs has finished after a tool round with
\* two calls, as the live run with tool logs did
C27_Witness ==
    /\ running = 2
    /\ InSync
    /\ Finished
    /\ ~stream_mode /\ ~include_tool_logs
    /\ other[1].stream_mode /\ other[1].include_tool_logs
    /\ Len(requests) = 2
    /\ Len(called) = 1
    /\ out # other[1].out

-----------------------------------------------------------------------------
(* The object of the frames of the streaming encoder *)

\* C28: every data frame of async_sse_chat_completions, for a wrapped item
\* and for an item with a choices key alike, has the object
\* "chat.completion.chunk".
C28_EveryFrameIsAChunk ==
    encoder = "async" =>
        \A i \in 1..Len(sse_consumed) :
            sse_frames[i].body.payload.object = "chat.completion.chunk"

\* what the code does: the frame of a wrapped item is a chunk, the frame of
\* an item with choices has the item's object, or that of the envelope of a
\* whole response when the item has none
C28_FrameObjectIsChunkOrItemsOrEnvelopes ==
    encoder = "async" =>
        \A i \in 1..Len(sse_consumed) :
            sse_frames[i].body.payload.object =
                (IF ~IsPreShaped(sse_consumed[i]) THEN "chat.completion.chunk"
                 ELSE IF "object" \in DOMAIN sse_consumed[i].v THEN sse_consumed[i].v.object
                 ELSE "chat.completion")

\* an item with choices and no object key was framed after a wrapped item
C28_Witness ==
    /\ encoder = "async"
    /\ sse_pc = "done"
    /\ Len(sse_consumed) = 2
    /\ sse_consumed[1] = StopItem
    /\ sse_consumed[2] = PyDict([choices |-> PreShapedChoices])
    /\ sse_frames[1].body.payload.object = "chat.completion.chunk"
    /\ sse_frames[2].body.payload.object = "chat.completion"

-----------------------------------------------------------------------------
(* The caller's message list *)

\* the tool loop of round r has run to its end
ToolLoopFinished(r) ==
    /\ RoundToolUses(r) # <<>>
    /\ CallsBefore(r) + Len(RoundToolUses(r)) <= Len(returned)

\* C29: the list of messages the caller passed is never modified: whether
\* the request is under way, finished, failed or left where it stands, the
\* list is what it was before the call, and the assistant and tool-result
\* messages are appended to the private copy, after the caller's messages.
C29_CallersMessagesUntouched ==
    /\ messages = InitialMessages
    /\ HasLocals =>
          /\ IsPrefix(messages, conversation)
          /\ Len(conversation) - Len(messages)
                = Len(round_log) + Cardinality({ r \in 1..Len(round_log) :
                                                   ToolLoopFinished(r) })

\* a request finished after a tool round: three messages were appended
C29_Witness ==
    /\ Finished
    /\ ~simulate
    /\ Len(conversation) = Len(InitialMessages) + 3
    /\ messages = InitialMessages

\* a request failed in its second round, after two messages were appended
C29_WitnessFailed ==
    /\ pc = "failed"
    /\ Len(round_log) = 1
    /\ Len(requests) = 2
    /\ Len(conversation) = Len(InitialMessages) + 2
    /\ messages = InitialMessages

====
